---- MODULE Spec2Model ----
(***************************************************************************)
(* Sweep-ordering and cross-process flux-exchange subsystem of chi-tech.   *)
(*                                                                         *)
(* Part I  : FLUDS::SerializeCellInfo / FLUDS::DeSerializeCellInfo, the    *)
(*           flat integer wire format of compact cell views.              *)
(* Part II : FLUDS::InitializeBetaElements, the exchange protocol run by   *)
(*           every process (location) over MPI.                            *)
(* Part III: SweepBuffer, the send/receive bookkeeping of one angle set,   *)
(*           polled by the sweep scheduler and reset between sweeps.       *)
(***************************************************************************)
EXTENDS Integers, Sequences, FiniteSets, TLC

VARIABLES
  \* ---- Part I: one SerializeCellInfo / DeSerializeCellInfo round
  ser_stage,          \* "input" -> "serialized" -> "deserialized"
  in_cell_views,      \* std::vector<CompactCellView> handed to SerializeCellInfo
  in_num_face_dofs,   \* num_face_dofs handed to SerializeCellInfo
  face_indices,       \* the flat buffer (std::vector<int>)
  out_cell_views,     \* cell_views filled by DeSerializeCellInfo
  out_num_face_dofs,  \* num_face_dofs set by DeSerializeCellInfo
  out_fault,          \* the decoder read or wrote outside a vector
  \* ---- Part II: one InitializeBetaElements call on every location
  location_successors,             \* spds->location_successors, per location
  delayed_location_successors,     \* spds->delayed_location_successors
  location_dependencies,           \* spds->location_dependencies
  delayed_location_dependencies,   \* spds->delayed_location_dependencies
  item_id,                         \* spds->spls->item_id: the local cells in sweep order
  tag_index,                       \* per location: tag_index of this call and of the calls to come
  deplocI_cell_views,              \* outgoing compact cell views, per successor index
  multi_face_indices,              \* send buffers, per successor index
  send_requests,                   \* MPI_Request per successor index
  prelocI_cell_views,              \* views received from ordinary predecessors
  prelocI_face_dof_count,
  delayed_prelocI_cell_views,      \* views received from delayed predecessors
  delayed_prelocI_face_dof_count,
  pc,                              \* per location: the operation it is at
  mailbox,                         \* messages sent and not yet received, per (source, dest)
  eager,                           \* the transport buffers a message when it is sent
  events,                          \* per location: the MPI calls it has made, in order
  cell_order,                      \* the cells gone through by the cell loops, in order
  \* ---- Part III: one SweepBuffer object
  sweep_buffer,       \* the fields of the SweepBuffer
  sweep_log,          \* what the calls on it did: last call, MPI_Test and ClearSendPsi counts
  \* ---- Part IV: one TransportCrossSections object
  xs,                 \* its fission-related fields
  xs_given,           \* the fields as they were before Finalize
  xs_thrown,          \* "" before Finalize, then the exception thrown or "none"
  \* ---- Part V: the ChiObjectMaker singleton and the global object stack
  object_registry_,   \* per type name: not registered, or whether it has a constructor
  object_stack,       \* the objects made, each with its stack id
  make_log,           \* what the last MakeRegisteredObject(OfType) call did
  \* ---- Part VI: one TransientSolver and the vectors of SetTransientSource
  ts,                 \* the solver: groups, groupset, options, cross sections, sources, phi
  destination_q,      \* the vector the source is contributed to
  ts_log              \* the last call: its flags, destination_q before it, what it added

serVars == <<ser_stage, in_cell_views, in_num_face_dofs, face_indices,
             out_cell_views, out_num_face_dofs, out_fault>>

spdsVars == <<location_successors, delayed_location_successors,
              location_dependencies, delayed_location_dependencies, item_id,
              tag_index>>

fludsVars == <<deplocI_cell_views, multi_face_indices, send_requests,
               prelocI_cell_views, prelocI_face_dof_count,
               delayed_prelocI_cell_views, delayed_prelocI_face_dof_count>>

protoVars == <<spdsVars, fludsVars, pc, mailbox, eager, events, cell_order>>

sbVars == <<sweep_buffer, sweep_log>>

xsVars == <<xs, xs_given, xs_thrown>>

objVars == <<object_registry_, object_stack, make_log>>

tsVars == <<ts, destination_q, ts_log>>

vars == <<serVars, protoVars, sbVars, xsVars, objVars, tsVars>>

(***************************************************************************)
(* 32-bit signed int.                                                      *)
(***************************************************************************)
IntMax == 2147483647
IntMin == -IntMax - 1

\* What an overflowing signed operation may evaluate to (undefined
\* behaviour): neg is the value of -x for x = IntMin, sub the value of
\* x - 1 for x = IntMin.  Two's complement wrap-around is neg = IntMin,
\* sub = IntMax.
UBOutcomes == {[neg |-> IntMin, sub |-> IntMax], [neg |-> 0, sub |-> 0]}

Neg32(x, ub) == IF x = IntMin THEN ub.neg ELSE -x
Dec32(x, ub) == IF x = IntMin THEN ub.sub ELSE x - 1

(***************************************************************************)
(* CompactFaceView = pair<int, vector<int>>,                               *)
(* CompactCellView = pair<int, vector<CompactFaceView>>.                   *)
(***************************************************************************)
EmptyFaceView == [first |-> 0, second |-> <<>>]
EmptyCellView == [first |-> 0, second |-> <<>>]

\* std::vector::resize(n) with value-initialised new elements.
Resize(v, n, fill) ==
  IF Len(v) >= n THEN SubSeq(v, 1, n)
  ELSE v \o [i \in 1..(n - Len(v)) |-> fill]

(***************************************************************************)
(* SerializeCellInfo                                                       *)
(***************************************************************************)
\* int glob_index = -(*cell_views)[c].first-1;
GlobIndex(first, ub) == Dec32(Neg32(first, ub), ub)

\* The signed operations of GlobIndex stay in range.
GlobIndexInRange(first) == first # IntMin /\ -first # IntMin

\* Mutant: the face's first written ahead of the marker.
FaceGroupIdFirst(glob_index, face_view) ==
  <<face_view.first, glob_index>> \o face_view.second

\* One face: the marker, the face's first, then its vertices.
FaceGroup(glob_index, face_view) ==
  <<glob_index, face_view.first>> \o face_view.second

RECURSIVE SerFaceLoopMarkerOnce(_, _, _, _)
\* Mutant: the marker written once per cell, ahead of its first face only.
SerFaceLoopMarkerOnce(buf, glob_index, cell_face_views, f) ==
  IF f >= Len(cell_face_views) THEN buf
  ELSE SerFaceLoopMarkerOnce(
         buf \o (IF f = 0 THEN <<glob_index>> ELSE <<>>)
             \o <<cell_face_views[f + 1].first>> \o cell_face_views[f + 1].second,
         glob_index, cell_face_views, f + 1)

RECURSIVE SerFaceLoop(_, _, _, _)
SerFaceLoop(buf, glob_index, cell_face_views, f) ==
  IF f >= Len(cell_face_views) THEN buf
  ELSE SerFaceLoop(buf \o FaceGroup(glob_index, cell_face_views[f + 1]),
                   glob_index, cell_face_views, f + 1)

RECURSIVE SerCellLoop(_, _, _, _)
SerCellLoop(buf, cell_views, c, ub) ==
  IF c >= Len(cell_views) THEN buf
  ELSE SerCellLoop(SerFaceLoop(buf, GlobIndex(cell_views[c + 1].first, ub),
                               cell_views[c + 1].second, 0),
                   cell_views, c + 1, ub)

\* Mutant: num_cells counts the cells that have a face.
SerHeaderCountsCellsWithFaces(cell_views, num_face_dofs) ==
  <<num_face_dofs, Len(SelectSeq(cell_views, LAMBDA cv : cv.second # <<>>))>>

\* face_indices.push_back(num_face_dofs); face_indices.push_back(num_cells);
SerHeader(cell_views, num_face_dofs) == <<num_face_dofs, Len(cell_views)>>

SerializeCellInfo(cell_views, buf, num_face_dofs, ub) ==
  SerCellLoop(buf \o SerHeader(cell_views, num_face_dofs), cell_views, 0, ub)

(***************************************************************************)
(* DeSerializeCellInfo                                                     *)
(***************************************************************************)
\* if (-entry != last_cell)
StartsNewCell(entry, last_cell, ub) == Neg32(entry, ub) # last_cell

\* cell_views[c].first = -entry-1;
CellIdOf(entry, ub) == Dec32(Neg32(entry, ub), ub)

\* cell_views.resize(num_cells);
DeSerResize(cell_views, num_cells) == Resize(cell_views, num_cells, EmptyCellView)

\* cell_views.push_back(CompactCellView()); c++;
DeSerPushCell(cell_views) == Append(cell_views, EmptyCellView)

IsIndicatorNonPositive(entry) == entry <= 0

\* if (entry < 0): the cell/face indicator test.
IsIndicator(entry) == entry < 0

\* One pass of the while loop body at position st.k.
DeSerEntry(st, buf, ub) ==
  LET entry == buf[st.k + 1] IN
  IF IsIndicator(entry)
  THEN
    IF st.k + 1 >= Len(buf)
    THEN [st EXCEPT !.fault = TRUE]          \* (*face_indices)[k+1] past the end
    ELSE IF StartsNewCell(entry, st.last_cell, ub)
    THEN
      LET pushed == DeSerPushCell(st.cell_views)
          c      == st.c + 1
      IN IF c + 1 > Len(pushed) THEN [st EXCEPT !.fault = TRUE]
         ELSE
           LET withId   == [pushed EXCEPT ![c + 1].first = CellIdOf(entry, ub)]
               withFace == [withId EXCEPT ![c + 1].second = Append(@, EmptyFaceView)]
               f        == 0
           IN [cell_views |-> [withFace EXCEPT ![c + 1].second[f + 1].first = buf[st.k + 2]],
               k |-> st.k + 2, last_cell |-> Neg32(entry, ub),
               c |-> c, f |-> f, fault |-> FALSE]
    ELSE
      IF st.c < 0 THEN [st EXCEPT !.fault = TRUE]  \* cell_views[-1]
      ELSE
        LET c        == st.c
            withFace == [st.cell_views EXCEPT ![c + 1].second = Append(@, EmptyFaceView)]
            f        == st.f + 1
        IN IF f + 1 > Len(withFace[c + 1].second) THEN [st EXCEPT !.fault = TRUE]
           ELSE [st EXCEPT !.cell_views =
                             [withFace EXCEPT ![c + 1].second[f + 1].first = buf[st.k + 2]],
                           !.k = st.k + 2, !.f = f]
  ELSE
    IF st.c < 0 \/ st.f < 0 THEN [st EXCEPT !.fault = TRUE]  \* cell_views[-1]
    ELSE [st EXCEPT !.cell_views[st.c + 1].second[st.f + 1].second = Append(@, entry),
                    !.k = st.k + 1]

RECURSIVE DeSerLoop(_, _, _)
\* while (k < face_indices->size()).  (The state after one pass is bound
\* through a one-element set so that it is computed once.)
DeSerLoop(st, buf, ub) ==
  IF st.fault \/ st.k >= Len(buf) THEN st
  ELSE CHOOSE end \in {DeSerLoop(next, buf, ub) : next \in {DeSerEntry(st, buf, ub)}} : TRUE

\* The result: the output list, num_face_dofs, and whether the decoder
\* left the bounds of a vector (a contract violation of the caller).
DeSerializeCellInfo(cell_views, buf, ub) ==
  IF Len(buf) < 2 \/ (Len(buf) >= 2 /\ buf[2] < 0)
  THEN [cell_views |-> cell_views, num_face_dofs |-> 0, fault |-> TRUE]
  ELSE
    LET st0 == [cell_views |-> DeSerResize(cell_views, buf[2]),
                k |-> 2, last_cell |-> -1, c |-> -1, f |-> -1, fault |-> FALSE]
        end == DeSerLoop(st0, buf, ub)
    IN [cell_views |-> end.cell_views, num_face_dofs |-> buf[1], fault |-> end.fault]

(***************************************************************************)
(* Inputs of Part I: lists of compact cell views, bounded by the number of *)
(* cells and by the length of the serialized body.                         *)
(***************************************************************************)
MaxCells == 2
MaxBody  == 6

GlobalIds     == {0, 1, IntMax}
FaceIds       == {0, 1}
VertexIds     == {0, 2}
FaceDofCounts == {0, 4}

RECURSIVE VertexSeqs(_)
VertexSeqs(n) ==
  IF n <= 0 THEN {<<>>}
  ELSE {<<>>} \cup {<<v>> \o s : v \in VertexIds, s \in VertexSeqs(n - 1)}

FaceViews(b) ==
  IF b < 2 THEN {}
  ELSE {[first |-> id, second |-> vs] : id \in FaceIds, vs \in VertexSeqs(b - 2)}

FaceCost(face_view) == 2 + Len(face_view.second)

RECURSIVE FaceLists(_)
FaceLists(b) ==
  {<<>>} \cup UNION {{<<fv>> \o r : r \in FaceLists(b - FaceCost(fv))} : fv \in FaceViews(b)}

RECURSIVE BodyLen(_)
BodyLen(face_views) ==
  IF face_views = <<>> THEN 0
  ELSE FaceCost(Head(face_views)) + BodyLen(Tail(face_views))

CellViews(b) == {[first |-> g, second |-> fl] : g \in GlobalIds, fl \in FaceLists(b)}

RECURSIVE CellLists(_, _)
CellLists(n, b) ==
  IF n = 0 THEN {<<>>}
  ELSE {<<>>} \cup
       UNION {{<<cv>> \o r : r \in CellLists(n - 1, b - BodyLen(cv.second))} : cv \in CellViews(b)}

\* Part II does not run.
\* Part III does not run.
XsUnused ==
  /\ xs = <<>>
  /\ xs_given = <<>>
  /\ xs_thrown = ""

ObjUnused ==
  /\ object_registry_ = <<>>
  /\ object_stack = <<>>
  /\ make_log = <<>>

TsUnused ==
  /\ ts = <<>>
  /\ destination_q = <<>>
  /\ ts_log = <<>>

SbUnused ==
  /\ sweep_buffer = <<>>
  /\ sweep_log = <<>>

ProtoUnused ==
  /\ location_successors = <<>>
  /\ delayed_location_successors = <<>>
  /\ location_dependencies = <<>>
  /\ delayed_location_dependencies = <<>>
  /\ deplocI_cell_views = <<>>
  /\ multi_face_indices = <<>>
  /\ send_requests = <<>>
  /\ prelocI_cell_views = <<>>
  /\ prelocI_face_dof_count = <<>>
  /\ delayed_prelocI_cell_views = <<>>
  /\ delayed_prelocI_face_dof_count = <<>>
  /\ pc = <<>>
  /\ mailbox = <<>>
  /\ eager = FALSE
  /\ events = <<>>
  /\ item_id = <<>>
  /\ tag_index = <<>>
  /\ cell_order = <<>>

(***************************************************************************)
(* Part I as a state machine.                                              *)
(***************************************************************************)
SerInit ==
  /\ ser_stage = "input"
  /\ in_cell_views \in CellLists(MaxCells, MaxBody)
  /\ in_num_face_dofs \in FaceDofCounts
  /\ face_indices = <<>>
  /\ out_cell_views = <<>>
  /\ out_num_face_dofs = 0
  /\ out_fault = FALSE
  /\ ProtoUnused
  /\ SbUnused
  /\ XsUnused
  /\ ObjUnused
  /\ TsUnused

Serialize ==
  /\ ser_stage = "input"
  /\ \E ub \in UBOutcomes :
       face_indices' = SerializeCellInfo(in_cell_views, face_indices, in_num_face_dofs, ub)
  /\ ser_stage' = "serialized"
  /\ UNCHANGED <<in_cell_views, in_num_face_dofs, out_cell_views, out_num_face_dofs, out_fault>>
  /\ UNCHANGED <<protoVars, sbVars, xsVars, objVars, tsVars>>

DeSerialize ==
  /\ ser_stage = "serialized"
  /\ \E ub \in UBOutcomes :
       LET r == DeSerializeCellInfo(out_cell_views, face_indices, ub) IN
         /\ out_cell_views' = r.cell_views
         /\ out_num_face_dofs' = r.num_face_dofs
         /\ out_fault' = r.fault
  /\ ser_stage' = "deserialized"
  /\ UNCHANGED <<in_cell_views, in_num_face_dofs, face_indices>>
  /\ UNCHANGED <<protoVars, sbVars, xsVars, objVars, tsVars>>

SerNext == Serialize \/ DeSerialize

SerSpec == SerInit /\ [][SerNext]_vars

(***************************************************************************)
(* The decoder on its own: DeSerializeCellInfo applied to any buffer a     *)
(* rank may receive, not only to the output of SerializeCellInfo.          *)
(***************************************************************************)
MaxRaw == 5
RawEntries == {-2, -1, 0, 1}
RawHeaders == {<<0, 0>>, <<0, 1>>}

RECURSIVE RawBodies(_)
RawBodies(n) ==
  IF n = 0 THEN {<<>>}
  ELSE LET shorter == RawBodies(n - 1) IN
       shorter \cup {Append(b, e) : b \in {x \in shorter : Len(x) = n - 1}, e \in RawEntries}

DecodeInit ==
  /\ ser_stage = "serialized"
  /\ in_cell_views = <<>>
  /\ in_num_face_dofs = 0
  /\ face_indices \in {h \o b : h \in RawHeaders, b \in RawBodies(MaxRaw)}
  /\ out_cell_views = <<>>
  /\ out_num_face_dofs = 0
  /\ out_fault = FALSE
  /\ ProtoUnused
  /\ SbUnused
  /\ XsUnused
  /\ ObjUnused
  /\ TsUnused

DecodeNext == DeSerialize

DecodeSpec == DecodeInit /\ [][DecodeNext]_vars

\* Part I does not run.
SerUnused ==
  /\ ser_stage = "unused"
  /\ in_cell_views = <<>>
  /\ in_num_face_dofs = 0
  /\ face_indices = <<>>
  /\ out_cell_views = <<>>
  /\ out_num_face_dofs = 0
  /\ out_fault = FALSE

(***************************************************************************)
(* Part II: InitializeBetaElements on every location.                      *)
(*                                                                         *)
(* The sweep-plane data structure (SPDS) of a location lists its successor *)
(* locations (all of them, delayed ones included), its delayed successors, *)
(* its ordinary predecessors and its delayed predecessors.  The lists are  *)
(* derived from a set of directed edges between locations, each edge       *)
(* ordinary or delayed for both of its ends.                               *)
(***************************************************************************)
Locations == 0 .. 3
MaxEdges  == 3

LocationPairs == {pr \in Locations \X Locations : pr[1] # pr[2]}

AllEdges ==
  {[from |-> pr[1], to |-> pr[2], delayed |-> d] : pr \in LocationPairs, d \in BOOLEAN}

RECURSIVE EdgeSets(_)
\* Sets of at most k edges, at most one edge per ordered pair of locations.
EdgeSets(k) ==
  IF k = 0 THEN {{}}
  ELSE LET S == EdgeSets(k - 1) IN
       S \cup UNION {{E \cup {e} :
                        e \in {x \in AllEdges :
                                 \A y \in E : <<y.from, y.to>> # <<x.from, x.to>>}}
                     : E \in S}

\* Number of edges at location p.
Degree(E, p) == Cardinality({e \in E : e.from = p \/ e.to = p})

\* The exchange does not depend on how the locations are numbered (the
\* lists below come in every order), so of the edge sets that differ only
\* by renumbering the locations, those with the busiest locations first
\* are kept.
BusiestFirst(E) ==
  \A p \in Locations : (p + 1) \in Locations => Degree(E, p) >= Degree(E, p + 1)

Topologies == {E \in EdgeSets(MaxEdges) : BusiestFirst(E)}

RECURSIVE Perms(_)
Perms(S) ==
  IF S = {} THEN {<<>>}
  ELSE UNION {{<<x>> \o r : r \in Perms(S \ {x})} : x \in S}

RECURSIVE Sorted(_)
Sorted(S) ==
  IF S = {} THEN <<>>
  ELSE LET m == CHOOSE x \in S : \A y \in S : x <= y IN <<m>> \o Sorted(S \ {m})

RECURSIVE ListChoices(_, _)
\* The functions on D that pick one element of F[d] for each d.
ListChoices(F, D) ==
  IF D = {} THEN {<<>>}
  ELSE LET d == CHOOSE x \in D : \A y \in D : y <= x IN
       {[x \in 0 .. d |-> IF x = d THEN l ELSE g[x]] :
          g \in ListChoices(F, D \ {d}), l \in F[d]}

Range(s) == {s[k] : k \in 1 .. Len(s)}

\* The compact cell views a location holds for its successor index deplocI
\* before the call, and the face dof count that goes with them.
OutgoingCellViews(p, deplocI, locJ) ==
  <<[first |-> p, second |-> <<[first |-> deplocI, second |-> <<locJ>>]>>]>>

deplocI_face_dof_count(p, deplocI) == deplocI + 1

(***************************************************************************)
(* Control flow of InitializeBetaElements.  A location is at an operation: *)
(* a loop (phase) and the index i of the iteration it is about to run.     *)
(* Iterations that only `continue`, and loops with nothing left to do, are *)
(* passed over as part of the operation before them.                       *)
(***************************************************************************)
\* Mutant: the two receive loops ahead of the send of the delayed data.
PhaseAfterReceiveFirst(phase) ==
  CASE phase = "start"         -> "recv_delayed"
    [] phase = "recv_delayed"  -> "recv_ordinary"
    [] phase = "recv_ordinary" -> "send_delayed"
    [] phase = "send_delayed"  -> "send_ordinary"
    [] phase = "send_ordinary" -> "wait"
    [] phase = "wait"          -> "clear"

\* Mutant: ordinary predecessors received ahead of the delayed ones, and
\* the ordinary sends ahead of the last receives.
PhaseAfterOrdinaryFirst(phase) ==
  CASE phase = "start"         -> "send_delayed"
    [] phase = "send_delayed"  -> "recv_ordinary"
    [] phase = "recv_ordinary" -> "send_ordinary"
    [] phase = "send_ordinary" -> "recv_delayed"
    [] phase = "recv_delayed"  -> "wait"
    [] phase = "wait"          -> "clear"

\* Mutant: both send loops ahead of the two receive loops.
PhaseAfterSendsFirst(phase) ==
  CASE phase = "start"         -> "send_delayed"
    [] phase = "send_delayed"  -> "send_ordinary"
    [] phase = "send_ordinary" -> "recv_delayed"
    [] phase = "recv_delayed"  -> "recv_ordinary"
    [] phase = "recv_ordinary" -> "wait"
    [] phase = "wait"          -> "clear"

\* Mutant: the send buffers are released without the wait loop.
PhaseAfterNoWait(phase) ==
  CASE phase = "start"         -> "send_delayed"
    [] phase = "send_delayed"  -> "recv_delayed"
    [] phase = "recv_delayed"  -> "recv_ordinary"
    [] phase = "recv_ordinary" -> "send_ordinary"
    [] phase = "send_ordinary" -> "clear"
    [] phase = "wait"          -> "clear"

\* The order of the loops in the function body.
PhaseAfter(phase) ==
  CASE phase = "start"         -> "send_delayed"
    [] phase = "send_delayed"  -> "recv_delayed"
    [] phase = "recv_delayed"  -> "recv_ordinary"
    [] phase = "recv_ordinary" -> "send_ordinary"
    [] phase = "send_ordinary" -> "wait"
    [] phase = "wait"          -> "clear"

\* std::find(delayed_location_successors.begin(), ..end(), locJ) != ..end()
IsDelayedSuccessor(p, locJ) ==
  \E k \in 1 .. Len(delayed_location_successors[p]) :
    delayed_location_successors[p][k] = locJ

\* Mutant: the first send loop passes over every successor.
SkipInDelayedSendNever(p, locJ) == TRUE

\* Mutant: the first send loop passes over no successor.
SkipInDelayedSendNone(p, locJ) == FALSE

\* if (delayed_successor == end()) continue;   (first send loop)
SkipInDelayedSend(p, locJ) == ~IsDelayedSuccessor(p, locJ)

\* Mutant: the second send loop passes over no successor.
SkipInOrdinarySendNone(p, locJ) == FALSE

\* if (delayed_successor != end()) continue;   (second send loop)
SkipInOrdinarySend(p, locJ) == IsDelayedSuccessor(p, locJ)

LoopLen(p, phase) ==
  CASE phase = "send_delayed"  -> Len(location_successors[p])
    [] phase = "recv_delayed"  -> Len(delayed_location_dependencies[p])
    [] phase = "recv_ordinary" -> Len(location_dependencies[p])
    [] phase = "send_ordinary" -> Len(location_successors[p])
    [] phase = "wait"          -> Len(location_successors[p])
    [] OTHER                   -> 0

Continues(p, phase, i) ==
  CASE phase = "send_delayed"  -> SkipInDelayedSend(p, location_successors[p][i + 1])
    [] phase = "send_ordinary" -> SkipInOrdinarySend(p, location_successors[p][i + 1])
    [] OTHER                   -> FALSE

RECURSIVE NextOp(_, _, _)
\* The operation reached from iteration i of loop phase.
NextOp(p, phase, i) ==
  IF phase = "clear" THEN [phase |-> "clear", i |-> 0]
  ELSE IF i >= LoopLen(p, phase) THEN NextOp(p, PhaseAfter(phase), 0)
  ELSE IF Continues(p, phase, i) THEN NextOp(p, phase, i + 1)
  ELSE [phase |-> phase, i |-> i]

Done(p) == pc[p].phase = "done"
AllDone == \A p \in Locations : Done(p)

(***************************************************************************)
(* The operations.                                                         *)
(***************************************************************************)
\* The request MPI_Isend leaves: below the eager limit the transport buffers
\* the message and the send is complete at once; above it the send
\* completes when the receiver takes the message.
\* Mutant: no send completes before the receiver has taken the message.
IsendRequestNeverBuffered == "active"

IsendRequest == IF eager THEN "complete" ELSE "active"

\* Mutant: every exchange uses the one tag.
MessageTagFixed(index) == 101

\* The tag of the MPI_Isend, MPI_Probe and MPI_Recv calls: 101+tag_index.
MessageTag(index) == 101 + index

\* The tag index of the call location p is in.
CurrentTagIndex(p) == Head(tag_index[p])

\* The places in the mailbox from locJ to p of the messages with the tag.
Matching(locJ, p, tag) ==
  {n \in 1 .. Len(mailbox[<<locJ, p>>]) : mailbox[<<locJ, p>>][n].tag = tag}

\* MPI matches a probe or receive from (locJ, tag) with the earliest
\* message sent by locJ with that tag.
FirstMatching(locJ, p, tag) ==
  CHOOSE n \in Matching(locJ, p, tag) : \A m \in Matching(locJ, p, tag) : n <= m

RemoveAt(seq, n) == SubSeq(seq, 1, n - 1) \o SubSeq(seq, n + 1, Len(seq))

\* SerializeCellInfo into multi_face_indices[deplocI], MPI_Isend of it to
\* locJ, then the views of deplocI are cleared.
IsendSuccessor(p, step) ==
  LET i    == pc[p].i
      locJ == location_successors[p][i + 1]
  IN \E ub \in UBOutcomes :
       \E buf \in {SerializeCellInfo(deplocI_cell_views[p][i + 1],
                                     multi_face_indices[p][i + 1],
                                     deplocI_face_dof_count(p, i), ub)} :
          /\ multi_face_indices' = [multi_face_indices EXCEPT ![p][i + 1] = buf]
          /\ mailbox' = [mailbox EXCEPT ![<<p, locJ>>] =
                           Append(@, [data |-> buf, request |-> i,
                                      tag |-> MessageTag(CurrentTagIndex(p)),
                                      sent_for |-> CurrentTagIndex(p)])]
          /\ send_requests' = [send_requests EXCEPT ![p][i + 1] = IsendRequest]
          /\ deplocI_cell_views' = [deplocI_cell_views EXCEPT ![p][i + 1] = <<>>]
          /\ events' = [events EXCEPT ![p] =
                          Append(@, [op |-> "send", step |-> step, peer |-> locJ, index |-> i,
                                     tag_index |-> CurrentTagIndex(p), sent |-> buf])]
          /\ pc' = [pc EXCEPT ![p] = NextOp(p, pc[p].phase, i + 1)]

\* First loop: send delayed successor information.
SendDelayedSuccessor(p) ==
  /\ pc[p].phase = "send_delayed"
  /\ IsendSuccessor(p, 1)
  /\ UNCHANGED <<prelocI_cell_views, prelocI_face_dof_count,
                 delayed_prelocI_cell_views, delayed_prelocI_face_dof_count>>
  /\ UNCHANGED <<spdsVars, serVars, sbVars, xsVars, objVars, tsVars, eager, cell_order>>

\* Mutant: the buffer is one entry short of the message.
ReceivedBufferShort(amount_to_receive, data) ==
  [k \in 1 .. (amount_to_receive - 1) |-> data[k]]

\* face_indices.resize(amount_to_receive, 0); MPI_Recv(face_indices.data(),
\* amount_to_receive, ...): the buffer handed to DeSerializeCellInfo.
ReceivedBuffer(amount_to_receive, data) ==
  [k \in 1 .. amount_to_receive |-> IF k <= Len(data) THEN data[k] ELSE 0]

\* MPI_Probe and MPI_Get_count on the message of locJ with the tag of this
\* call, then the receive into a buffer of that size.
ProbedBuffer(p, locJ) ==
  LET msg == mailbox[<<locJ, p>>][FirstMatching(locJ, p, MessageTag(CurrentTagIndex(p)))]
      amount_to_receive == Len(msg.data)
  IN ReceivedBuffer(amount_to_receive, msg.data)

\* Mutant: whatever is received goes into the first slot.
ProbeRecvIntoFirstSlot(p, locJ, views, counts, prelocI, n, ub) ==
  LET resized == Resize(views, n, <<>>)
      cnts    == Resize(counts, n, 0)
  IN CHOOSE out \in
       {[views  |-> [resized EXCEPT ![1] = r.cell_views],
         counts |-> [cnts EXCEPT ![1] = r.num_face_dofs]] :
          r \in {DeSerializeCellInfo(resized[1], buf, ub) :
                   buf \in {ProbedBuffer(p, locJ)}}} : TRUE

\* MPI_Probe + MPI_Get_count + MPI_Recv from locJ, then DeSerializeCellInfo
\* into slot prelocI of views; the message leaves the mailbox and the
\* sender's request completes if the transport had not completed it.
\* Yields the new views and counts.
ProbeRecv(p, locJ, views, counts, prelocI, n, ub) ==
  LET resized == Resize(views, n, <<>>)
      cnts    == Resize(counts, n, 0)
  IN CHOOSE out \in
       {[views  |-> [resized EXCEPT ![prelocI + 1] = r.cell_views],
         counts |-> [cnts EXCEPT ![prelocI + 1] = r.num_face_dofs]] :
          r \in {DeSerializeCellInfo(resized[prelocI + 1], buf, ub) :
                   buf \in {ProbedBuffer(p, locJ)}}} : TRUE

RecvEffects(p, locJ, step) ==
  \E n \in {FirstMatching(locJ, p, MessageTag(CurrentTagIndex(p)))} :
  \E msg \in {mailbox[<<locJ, p>>][n]} :
  \E received \in {ProbedBuffer(p, locJ)} :
  /\ mailbox' = [mailbox EXCEPT ![<<locJ, p>>] = RemoveAt(@, n)]
  /\ send_requests' = [send_requests EXCEPT ![locJ][msg.request + 1] =
                         IF @ = "active" THEN "complete" ELSE @]
  /\ events' = [events EXCEPT ![p] =
                  Append(@, [op |-> "recv", step |-> step, peer |-> locJ, index |-> pc[p].i,
                             tag_index |-> CurrentTagIndex(p), sent_for |-> msg.sent_for,
                             received |-> received])]
  /\ pc' = [pc EXCEPT ![p] = NextOp(p, pc[p].phase, pc[p].i + 1)]

\* Second loop: receive delayed predecessor information (blocking).
RecvDelayedPredecessor(p) ==
  /\ pc[p].phase = "recv_delayed"
  /\ LET prelocI == pc[p].i
         locJ    == delayed_location_dependencies[p][prelocI + 1]
     IN /\ Matching(locJ, p, MessageTag(CurrentTagIndex(p))) # {}
        /\ \E ub \in UBOutcomes :
             LET r == ProbeRecv(p, locJ, delayed_prelocI_cell_views[p],
                                delayed_prelocI_face_dof_count[p], prelocI,
                                Len(delayed_location_dependencies[p]), ub)
             IN /\ delayed_prelocI_cell_views' =
                     [delayed_prelocI_cell_views EXCEPT ![p] = r.views]
                /\ delayed_prelocI_face_dof_count' =
                     [delayed_prelocI_face_dof_count EXCEPT ![p] = r.counts]
        /\ RecvEffects(p, locJ, 2)
  /\ UNCHANGED <<prelocI_cell_views, prelocI_face_dof_count,
                 deplocI_cell_views, multi_face_indices>>
  /\ UNCHANGED <<spdsVars, serVars, sbVars, xsVars, objVars, tsVars, eager, cell_order>>

\* Third loop: receive predecessor information (blocking).
RecvPredecessor(p) ==
  /\ pc[p].phase = "recv_ordinary"
  /\ LET prelocI == pc[p].i
         locJ    == location_dependencies[p][prelocI + 1]
     IN /\ Matching(locJ, p, MessageTag(CurrentTagIndex(p))) # {}
        /\ \E ub \in UBOutcomes :
             LET r == ProbeRecv(p, locJ, prelocI_cell_views[p],
                                prelocI_face_dof_count[p], prelocI,
                                Len(location_dependencies[p]), ub)
             IN /\ prelocI_cell_views' = [prelocI_cell_views EXCEPT ![p] = r.views]
                /\ prelocI_face_dof_count' =
                     [prelocI_face_dof_count EXCEPT ![p] = r.counts]
        /\ RecvEffects(p, locJ, 3)
  /\ UNCHANGED <<delayed_prelocI_cell_views, delayed_prelocI_face_dof_count,
                 deplocI_cell_views, multi_face_indices>>
  /\ UNCHANGED <<spdsVars, serVars, sbVars, xsVars, objVars, tsVars, eager, cell_order>>

\* Fourth loop: send successor information.
SendSuccessor(p) ==
  /\ pc[p].phase = "send_ordinary"
  /\ IsendSuccessor(p, 4)
  /\ UNCHANGED <<prelocI_cell_views, prelocI_face_dof_count,
                 delayed_prelocI_cell_views, delayed_prelocI_face_dof_count>>
  /\ UNCHANGED <<spdsVars, serVars, sbVars, xsVars, objVars, tsVars, eager, cell_order>>

\* Fifth loop: MPI_Wait(&send_requests[deplocI]) returns once the send has
\* completed.  A request no MPI_Isend has set is not a request MPI knows.
WaitSend(p) ==
  /\ pc[p].phase = "wait"
  /\ LET i == pc[p].i IN
       /\ send_requests[p][i + 1] # "active"
       /\ events' = [events EXCEPT ![p] =
            Append(@, [op    |-> IF send_requests[p][i + 1] = "unissued"
                                 THEN "wait_unissued" ELSE "wait",
                       step  |-> 5,
                       peer  |-> location_successors[p][i + 1],
                       index |-> i,
                       tag_index |-> CurrentTagIndex(p)])]
       /\ send_requests' = [send_requests EXCEPT ![p][i + 1] = "null"]
       /\ pc' = [pc EXCEPT ![p] = NextOp(p, "wait", i + 1)]
  /\ UNCHANGED <<deplocI_cell_views, multi_face_indices, prelocI_cell_views,
                 prelocI_face_dof_count, delayed_prelocI_cell_views,
                 delayed_prelocI_face_dof_count, mailbox>>
  /\ UNCHANGED <<spdsVars, serVars, sbVars, xsVars, objVars, tsVars, eager, cell_order>>

\* Mutant: the store is left as it is.
SwapWithEmptyForgotten(views, p) == views

\* auto empty_vector = ...(0); views.swap(empty_vector);
SwapWithEmpty(views, p) == [views EXCEPT ![p] = <<>>]

\* After the waits: the send buffers are released, the cells of the
\* location are gone through in sweep order for the non-local face mapping,
\* and the three view stores are swapped with empty vectors.
ClearUnnecessaryData(p) ==
  /\ pc[p].phase = "clear"
  /\ multi_face_indices' = [multi_face_indices EXCEPT ![p] = <<>>]
  /\ cell_order' = cell_order \o item_id[p]
  /\ deplocI_cell_views' = SwapWithEmpty(deplocI_cell_views, p)
  /\ prelocI_cell_views' = SwapWithEmpty(prelocI_cell_views, p)
  /\ delayed_prelocI_cell_views' = SwapWithEmpty(delayed_prelocI_cell_views, p)
  /\ events' = [events EXCEPT ![p] =
                  Append(@, [op |-> "clear", step |-> 6, peer |-> p, index |-> 0,
                             tag_index |-> CurrentTagIndex(p)])]
  /\ pc' = [pc EXCEPT ![p] = [phase |-> "done", i |-> 0]]
  /\ UNCHANGED <<send_requests, prelocI_face_dof_count,
                 delayed_prelocI_face_dof_count, mailbox>>
  /\ UNCHANGED <<spdsVars, serVars, sbVars, xsVars, objVars, tsVars, eager>>

\* The grid: four cells, cells 0 and 1 on location 0 and cells 2 and 3 on
\* location 1, each location with its cells in sweep order.
SweepOrderItems ==
  [p \in Locations |-> IF p = 0 THEN <<0, 1>> ELSE IF p = 1 THEN <<2, 3>> ELSE <<>>]

\* The state of every location before its first operation, for every edge
\* set; the tag indices of the calls are set by the callers.
ExchangeInit ==
  /\ SerUnused
  /\ SbUnused
  /\ XsUnused
  /\ ObjUnused
  /\ TsUnused
  /\ \E E \in Topologies :
       /\ location_successors \in
            ListChoices([p \in Locations |-> Perms({e.to : e \in {x \in E : x.from = p}})],
                        Locations)
       /\ delayed_location_successors =
            [p \in Locations |-> Sorted({e.to : e \in {x \in E : x.from = p /\ x.delayed}})]
       /\ location_dependencies \in
            ListChoices([p \in Locations |->
                           Perms({e.from : e \in {x \in E : x.to = p /\ ~x.delayed}})],
                        Locations)
       /\ delayed_location_dependencies \in
            ListChoices([p \in Locations |->
                           Perms({e.from : e \in {x \in E : x.to = p /\ x.delayed}})],
                        Locations)
  /\ deplocI_cell_views =
       [p \in Locations |->
          [k \in 1 .. Len(location_successors[p]) |->
             OutgoingCellViews(p, k - 1, location_successors[p][k])]]
  /\ multi_face_indices =
       [p \in Locations |-> [k \in 1 .. Len(location_successors[p]) |-> <<>>]]
  /\ send_requests =
       [p \in Locations |-> [k \in 1 .. Len(location_successors[p]) |-> "unissued"]]
  /\ prelocI_cell_views = [p \in Locations |-> <<>>]
  /\ prelocI_face_dof_count = [p \in Locations |-> <<>>]
  /\ delayed_prelocI_cell_views = [p \in Locations |-> <<>>]
  /\ delayed_prelocI_face_dof_count = [p \in Locations |-> <<>>]
  /\ mailbox = [pr \in LocationPairs |-> <<>>]
  /\ eager \in BOOLEAN
  /\ events = [p \in Locations |-> <<>>]
  /\ item_id = SweepOrderItems
  /\ cell_order = <<>>
  /\ pc = [p \in Locations |-> NextOp(p, "start", 0)]

\* One call on every location, all with tag index 0.
ProtoInit == ExchangeInit /\ tag_index = [p \in Locations |-> <<0>>]

LocationStep(p) ==
  \/ SendDelayedSuccessor(p)
  \/ RecvDelayedPredecessor(p)
  \/ RecvPredecessor(p)
  \/ SendSuccessor(p)
  \/ WaitSend(p)
  \/ ClearUnnecessaryData(p)

ProtoNext == \E p \in Locations : LocationStep(p)

ProtoSpec == ProtoInit /\ [][ProtoNext]_vars

RECURSIVE SumLen(_, _)
SumLen(f, D) ==
  IF D = {} THEN 0
  ELSE LET d == CHOOSE x \in D : TRUE IN Len(f[d]) + SumLen(f, D \ {d})

\* Number of edges between the locations.
EdgeCount == SumLen(location_successors, Locations)

\* The runs checked under fairness: the same exchange, on the edge sets of
\* at most MaxFairEdges edges.
MaxFairEdges == 2

ProtoFairInit == ProtoInit /\ EdgeCount <= MaxFairEdges

\* Every location is a process of its own and keeps running: an operation
\* that can be carried out is carried out, and a blocking receive returns
\* once the message it waits for has been sent.
ProtoFairSpec ==
  ProtoFairInit /\ [][ProtoNext]_vars /\ \A p \in Locations : WF_vars(LocationStep(p))

(***************************************************************************)
(* Properties of Part I.                                                   *)
(***************************************************************************)
EveryCellHasAFace(cell_views) ==
  \A c \in 1..Len(cell_views) : Len(cell_views[c].second) >= 1

AdjacentIdsDiffer(cell_views) ==
  \A c \in 1..(Len(cell_views) - 1) : cell_views[c].first # cell_views[c + 1].first

RECURSIVE CountOf(_, _)
CountOf(x, s) ==
  IF s = <<>> THEN 0 ELSE (IF Head(s) = x THEN 1 ELSE 0) + CountOf(x, Tail(s))

\* The body of a buffer: everything after the two header entries.
BodyOf(buf) == SubSeq(buf, 3, Len(buf))

RECURSIVE CellsLen(_, _)
\* Number of body entries the first n cells of cell_views should occupy.
CellsLen(cell_views, n) ==
  IF n = 0 THEN 0
  ELSE CellsLen(cell_views, n - 1) + BodyLen(cell_views[n].second)

\* Where the group of face f of cell c should start (entries before it).
GroupOffset(cell_views, c, f) ==
  2 + CellsLen(cell_views, c - 1) + BodyLen(SubSeq(cell_views[c].second, 1, f - 1))

RECURSIVE FacesWithId(_, _)
\* Total number of faces of the cells whose global id is g.
FacesWithId(cell_views, g) ==
  IF cell_views = <<>> THEN 0
  ELSE (IF Head(cell_views).first = g THEN Len(Head(cell_views).second) ELSE 0)
       + FacesWithId(Tail(cell_views), g)

\* C1: round trip -- for every list of cell views in which each cell has at
\* least one face, deserializing the serialized buffer into an empty list
\* gives back the input list and the input num_face_dofs.
C1_RoundTrip ==
  (ser_stage = "deserialized" /\ EveryCellHasAFace(in_cell_views))
    => (out_cell_views = in_cell_views /\ out_num_face_dofs = in_num_face_dofs)

\* C2: marker disambiguation -- a buffer whose body is two consecutive face
\* groups with the same cell marker decodes to exactly one cell entry that
\* holds two faces; the decoded list does not hold two cell entries.
C2_OneCellTwoFaces ==
  (ser_stage = "deserialized" /\ Len(in_cell_views) = 1
     /\ Len(in_cell_views[1].second) = 2)
    => (Len(out_cell_views) = 1 /\ Len(out_cell_views[1].second) = 2)

\* C3: wire format -- on an empty buffer SerializeCellInfo writes exactly
\* [num_face_dofs, num_cells] at positions 0 and 1, then for each cell in
\* order and each of its faces in order the group
\* [-(global id)-1, face id, vertex ids in order], and nothing else.
C3_WireFormat ==
  ser_stage # "input" =>
    /\ Len(face_indices) = 2 + CellsLen(in_cell_views, Len(in_cell_views))
    /\ face_indices[1] = in_num_face_dofs
    /\ face_indices[2] = Len(in_cell_views)
    /\ \A c \in 1..Len(in_cell_views) :
         \A f \in 1..Len(in_cell_views[c].second) :
           LET off == GroupOffset(in_cell_views, c, f)
               fv  == in_cell_views[c].second[f]
           IN /\ face_indices[off + 1] = -(in_cell_views[c].first) - 1
              /\ face_indices[off + 2] = fv.first
              /\ SubSeq(face_indices, off + 3, off + 2 + Len(fv.second)) = fv.second

C3_Witness ==
  /\ ser_stage = "serialized"
  /\ Len(in_cell_views) = 2
  /\ Len(in_cell_views[1].second) = 1
  /\ Len(in_cell_views[1].second[1].second) = 2
  /\ Len(in_cell_views[2].second) = 1

\* C4 as stated: consecutive faces of one cell do not repeat the marker --
\* a cell with k faces has its marker once in the body.
C4_MarkerOncePerCell ==
  ser_stage # "input" =>
    \A c \in 1..Len(in_cell_views) :
      (Len(in_cell_views[c].second) >= 1
         /\ FacesWithId(in_cell_views, in_cell_views[c].first) = Len(in_cell_views[c].second))
        => CountOf(-(in_cell_views[c].first) - 1, BodyOf(face_indices)) = 1

\* C4 amended: the marker is written at the head of every face group -- the
\* marker of a global id occurs in the body once per face of the cells with
\* that id, so k times for a cell with k faces.
C4_MarkerOncePerFace ==
  ser_stage # "input" =>
    \A c \in 1..Len(in_cell_views) :
      CountOf(-(in_cell_views[c].first) - 1, BodyOf(face_indices))
        = FacesWithId(in_cell_views, in_cell_views[c].first)

C4_Witness ==
  /\ ser_stage = "serialized"
  /\ \E c \in 1..Len(in_cell_views) :
       /\ Len(in_cell_views[c].second) = 2
       /\ CountOf(-(in_cell_views[c].first) - 1, BodyOf(face_indices)) = 2

\* C5: for every global id in 0..2^31-1 the marker -(id)-1 is negative, is
\* computed without signed overflow, and the decoder gets the id back.
C5_MarkerInverts ==
  (ser_stage = "deserialized" /\ EveryCellHasAFace(in_cell_views)
     /\ AdjacentIdsDiffer(in_cell_views))
    => \A c \in 1..Len(in_cell_views) :
         LET off == GroupOffset(in_cell_views, c, 1) IN
           /\ GlobIndexInRange(in_cell_views[c].first)
           /\ face_indices[off + 1] < 0
           /\ Len(out_cell_views) >= c
           /\ out_cell_views[c].first = in_cell_views[c].first

(***************************************************************************)
(* Properties of Part II.                                                  *)
(***************************************************************************)
\* a is an ordinary (non-delayed) predecessor of b.
OrdinaryEdge(a, b) == a \in Range(location_dependencies[b])

\* a is a delayed predecessor of b.
DelayedEdge(a, b) == a \in Range(delayed_location_dependencies[b])

\* Both ends of every edge agree on it and on its class.
ConsistentlyClassified ==
  \A a \in Locations : \A b \in Locations :
    /\ (b \in Range(location_successors[a])) <=> (OrdinaryEdge(a, b) \/ DelayedEdge(a, b))
    /\ (b \in Range(delayed_location_successors[a])) <=> DelayedEdge(a, b)
    /\ ~(OrdinaryEdge(a, b) /\ DelayedEdge(a, b))

RECURSIVE OrdinaryReach(_, _)
\* The locations reached from the set S over at most n further ordinary edges.
OrdinaryReach(S, n) ==
  IF n = 0 THEN S
  ELSE OrdinaryReach(S \cup {b \in Locations : \E a \in S : OrdinaryEdge(a, b)}, n - 1)

OrdinaryAcyclic ==
  \A a \in Locations :
    a \notin OrdinaryReach({b \in Locations : OrdinaryEdge(a, b)}, Cardinality(Locations))

\* Number of operations all locations have carried out.
TotalCalls == SumLen(events, Locations)

\* Number of operations one run consists of: a send and a wait per
\* successor entry, a receive per predecessor entry, the release.
CallBudget ==
  2 * SumLen(location_successors, Locations)
  + SumLen(location_dependencies, Locations)
  + SumLen(delayed_location_dependencies, Locations)
  + Cardinality(Locations)

EventsBefore(p, b, ops) == {a \in 1 .. (b - 1) : events[p][a].op \in ops}

SendsOf(p, deplocI) ==
  {a \in 1 .. Len(events[p]) : events[p][a].op = "send" /\ events[p][a].index = deplocI}

\* C6: deadlock freedom -- when the edges are classified consistently at both
\* ends and the ordinary edges form no cycle, every location completes all
\* steps of InitializeBetaElements: as long as some location has not
\* finished, some location can carry out its next operation, and a run
\* consists of a bounded number of operations, so no run ends or stays
\* short of every location being done.
C6_DeadlockFree ==
  (ConsistentlyClassified /\ OrdinaryAcyclic) =>
    /\ AllDone \/ ENABLED ProtoNext
    /\ TotalCalls <= CallBudget
    /\ AllDone => TotalCalls = CallBudget

C6_Witness ==
  /\ AllDone
  /\ OrdinaryAcyclic
  /\ \E a \in Locations : \E b \in Locations : \E c \in Locations :
       DelayedEdge(a, b) /\ OrdinaryEdge(b, a) /\ OrdinaryEdge(a, c)

\* Locations 0 and 1 depend on each other, one of the two edges is delayed
\* (at its sender and at its receiver), nothing else is connected.
IsRing2 ==
  /\ location_successors[0] = <<1>>
  /\ location_successors[1] = <<0>>
  /\ \A p \in Locations \ {0, 1} :
       /\ location_successors[p] = <<>>
       /\ location_dependencies[p] = <<>>
       /\ delayed_location_dependencies[p] = <<>>
  /\ ConsistentlyClassified
  /\ (DelayedEdge(0, 1) /\ OrdinaryEdge(1, 0)) \/ (DelayedEdge(1, 0) /\ OrdinaryEdge(0, 1))

\* C7: in the 2-location ring with exactly one delayed edge both locations
\* complete the exchange, after a bounded number of operations (a send, a
\* receive, a wait and the release on each of the two, the release alone on
\* every other location); no location stays blocked in a receive.
C7_RingCompletes ==
  IsRing2 ~> (AllDone /\ TotalCalls <= 2 * 4 + (Cardinality(Locations) - 2))

C7_Witness ==
  /\ IsRing2
  /\ AllDone
  /\ \A p \in {0, 1} : \E b \in 1 .. Len(events[p]) : events[p][b].op = "recv"

\* C8: on every location every send to a delayed successor is issued before
\* the location's first blocking receive.
C8_DelayedSendsFirst ==
  \A p \in Locations : \A b \in 1 .. Len(events[p]) :
    events[p][b].op = "recv" =>
      \A k \in 1 .. Len(location_successors[p]) :
        location_successors[p][k] \in Range(delayed_location_successors[p]) =>
          \E a \in 1 .. (b - 1) :
            /\ events[p][a].op = "send"
            /\ events[p][a].index = k - 1
            /\ events[p][a].peer = location_successors[p][k]

C8_Witness ==
  \E p \in Locations :
    /\ Len(delayed_location_successors[p]) >= 1
    /\ \E b \in 1 .. Len(events[p]) : events[p][b].op = "recv"

\* C9: on every location the delayed exchange comes before the ordinary one:
\* no receive from an ordinary predecessor before every receive from a
\* delayed predecessor is done, and no send to an ordinary successor before
\* every receive, delayed and ordinary, is done.
C9_DelayedBeforeOrdinary ==
  \A p \in Locations : \A b \in 1 .. Len(events[p]) :
    LET ev == events[p][b] IN
    /\ (ev.op = "recv" /\ ev.peer \in Range(location_dependencies[p]))
         => Cardinality({a \in EventsBefore(p, b, {"recv"}) :
                           events[p][a].peer \in Range(delayed_location_dependencies[p])})
              = Len(delayed_location_dependencies[p])
    /\ (ev.op = "send" /\ ev.peer \notin Range(delayed_location_successors[p]))
         => Cardinality(EventsBefore(p, b, {"recv"}))
              = Len(delayed_location_dependencies[p]) + Len(location_dependencies[p])

C9_Witness ==
  \E p \in Locations :
    /\ Done(p)
    /\ Len(delayed_location_dependencies[p]) >= 1
    /\ Len(location_dependencies[p]) >= 1
    /\ \E b \in 1 .. Len(events[p]) :
         /\ events[p][b].op = "send"
         /\ events[p][b].peer \notin Range(delayed_location_successors[p])

\* C10: every entry of location_successors is serialized and sent exactly
\* once per run, in step 1 if and only if it is a delayed successor and in
\* step 4 otherwise; every request waited on in step 5 was issued, and no
\* successor's buffer holds more than one serialization.
C10_EachSuccessorSentOnce ==
  \A p \in Locations :
    /\ \A k \in 1 .. Len(location_successors[p]) :
         LET locJ == location_successors[p][k] IN
         /\ Cardinality(SendsOf(p, k - 1)) <= 1
         /\ pc[p].phase \in {"wait", "clear", "done"} => Cardinality(SendsOf(p, k - 1)) = 1
         /\ \A a \in SendsOf(p, k - 1) :
              /\ events[p][a].peer = locJ
              /\ events[p][a].step = 1 <=> locJ \in Range(delayed_location_successors[p])
              /\ events[p][a].step = 4 <=> locJ \notin Range(delayed_location_successors[p])
         /\ k <= Len(multi_face_indices[p]) =>
              multi_face_indices[p][k] \in
                {<<>>, <<deplocI_face_dof_count(p, k - 1), 1, -p - 1, k - 1, locJ>>}
    /\ \A b \in 1 .. Len(events[p]) : events[p][b].op # "wait_unissued"

C10_Witness ==
  \E p \in Locations :
    /\ Done(p)
    /\ \E k \in 1 .. Len(location_successors[p]) :
         location_successors[p][k] \in Range(delayed_location_successors[p])
    /\ \E k \in 1 .. Len(location_successors[p]) :
         location_successors[p][k] \notin Range(delayed_location_successors[p])
    /\ \E b \in 1 .. Len(events[p]) : events[p][b].op = "wait"

\* p is in the blocking receive of step 2 or step 3 from q and the message
\* has not come: MPI_Probe does not return.
RecvBlocked(p, q) ==
  /\ p # q
  /\ \/ /\ pc[p].phase = "recv_delayed"
        /\ q = delayed_location_dependencies[p][pc[p].i + 1]
     \/ /\ pc[p].phase = "recv_ordinary"
        /\ q = location_dependencies[p][pc[p].i + 1]
  /\ Matching(q, p, MessageTag(CurrentTagIndex(p))) = {}

\* The locations p cannot go on without: the sender of the message it
\* receives, the receiver of the send it waits for.
WaitsFor(p) ==
  {q \in Locations : RecvBlocked(p, q)}
    \cup (IF pc[p].phase = "wait" /\ send_requests[p][pc[p].i + 1] = "active"
          THEN {location_successors[p][pc[p].i + 1]} ELSE {})

RECURSIVE WaitsForClosure(_, _)
\* The locations reached from S along WaitsFor in at most n further steps.
WaitsForClosure(S, n) ==
  IF n = 0 THEN S
  ELSE WaitsForClosure(S \cup UNION {WaitsFor(q) : q \in S}, n - 1)

\* q has issued its send to p.
HasSentTo(q, p) ==
  \E a \in 1 .. Len(events[q]) : events[q][a].op = "send" /\ events[q][a].peer = p

RECURSIVE OpsFrom(_, _)
\* The operations p still has to carry out, from operation op on.
OpsFrom(p, op) ==
  IF op.phase \in {"clear", "done"} THEN {op}
  ELSE {op} \cup OpsFrom(p, NextOp(p, op.phase, op.i + 1))

\* The send of q to p is among the operations q still has to carry out: in
\* the first loop for a delayed successor, in the fourth for an ordinary one.
SendAhead(q, p) ==
  \E op \in OpsFrom(q, pc[q]) :
    /\ op.phase = (IF IsDelayedSuccessor(q, p) THEN "send_delayed" ELSE "send_ordinary")
    /\ location_successors[q][op.i + 1] = p

IsOrdinaryRing2 ==
  /\ location_successors[0] = <<1>>
  /\ location_successors[1] = <<0>>
  /\ \A p \in Locations \ {0, 1} :
       /\ location_successors[p] = <<>>
       /\ location_dependencies[p] = <<>>
       /\ delayed_location_dependencies[p] = <<>>
  /\ ConsistentlyClassified
  /\ OrdinaryEdge(0, 1) /\ OrdinaryEdge(1, 0)

\* C12: with the 2-location cycle left ordinary on both sides the exchange
\* deadlocks -- in every state of every run both locations are in the
\* ordinary receive loop with no message to receive, neither has issued a
\* send, and neither can take a step.
C12_OrdinaryRingDeadlocks ==
  IsOrdinaryRing2 =>
    /\ RecvBlocked(0, 1) /\ RecvBlocked(1, 0)
    /\ pc[0].phase = "recv_ordinary" /\ pc[1].phase = "recv_ordinary"
    /\ ~HasSentTo(0, 1) /\ ~HasSentTo(1, 0)
    /\ events[0] = <<>> /\ events[1] = <<>>
    /\ ~ENABLED LocationStep(0) /\ ~ENABLED LocationStep(1)

C12_Witness ==
  /\ IsOrdinaryRing2
  /\ \A p \in Locations \ {0, 1} : Done(p)
  /\ ~ENABLED ProtoNext

\* Two locations take part, with the single ordinary edge from location 0
\* to location 1; the grid is the four cells split 2/2.
IsSingleOrdinaryEdge ==
  /\ location_successors[0] = <<1>>
  /\ \A p \in Locations \ {0} : location_successors[p] = <<>>
  /\ ConsistentlyClassified
  /\ OrdinaryEdge(0, 1)
  /\ item_id[0] = <<0, 1>> /\ item_id[1] = <<2, 3>>

\* Number of operations of the kind op location p has carried out.
CallsOf(p, op) == Cardinality({a \in 1 .. Len(events[p]) : events[p][a].op = op})

\* The places of cell c in cell_order.
PlacesOf(c) == {k \in 1 .. Len(cell_order) : cell_order[k] = c}

\* What C13 says of the messages: location 0 is never in a receive and sends
\* one message; location 1 receives once, that message, and sends none.
OneMessageExchanged ==
  /\ pc[0].phase \notin {"recv_delayed", "recv_ordinary"}
  /\ CallsOf(0, "recv") = 0
  /\ CallsOf(0, "send") <= 1
  /\ pc[0].phase \in {"wait", "clear", "done"} => CallsOf(0, "send") = 1
  /\ CallsOf(1, "send") = 0
  /\ CallsOf(1, "recv") <= 1
  /\ pc[1].phase \in {"wait", "clear", "done"} => CallsOf(1, "recv") = 1
  /\ \A a \in 1 .. Len(events[1]) : events[1][a].op = "recv" => events[1][a].peer = 0
  /\ Len(mailbox[<<0, 1>>]) + CallsOf(1, "recv") = CallsOf(0, "send")
  /\ CallsOf(1, "recv") = 1 =>
       prelocI_face_dof_count[1] = <<deplocI_face_dof_count(0, 0)>>

MaxSweeps     == 2
MaxNeighbours == 2
MaxMessages   == 2

EagerLimits == {0, 32768}

RECURSIVE SumSeq(_)
SumSeq(q) == IF q = <<>> THEN 0 ELSE Head(q) + SumSeq(Tail(q))

RECURSIVE MaxSeq(_)
MaxSeq(q) ==
  IF q = <<>> THEN 0
  ELSE LET r == MaxSeq(Tail(q)) IN IF Head(q) > r THEN Head(q) ELSE r

\* Message counts per neighbour: at most MaxNeighbours neighbours, at least
\* one message each, at most MaxMessages messages in all.
MessageCounts ==
  {q \in UNION {[1 .. n -> 1 .. MaxMessages] : n \in 0 .. MaxNeighbours} :
     SumSeq(q) <= MaxMessages}

NullRequest == [st |-> "null", sweep |-> 0]

\* BuildMessageStructure: one received flag per message of every
\* predecessor and delayed predecessor, one request per message of every
\* successor, and the largest message count.
BuildMessageStructure(sb, pre, delayed, dep) ==
  [sb EXCEPT
     !.prelocI_message_received = [i \in 1 .. Len(pre) |-> [m \in 1 .. pre[i] |-> FALSE]],
     !.delayed_prelocI_message_received =
        [i \in 1 .. Len(delayed) |-> [m \in 1 .. delayed[i] |-> FALSE]],
     !.deplocI_message_request = [i \in 1 .. Len(dep) |-> [m \in 1 .. dep[i] |-> NullRequest]],
     !.max_num_mess = MaxSeq(pre \o delayed \o dep)]

\* The constructor.
SweepBufferCtor(sweep_eager_limit, pre, delayed, dep) ==
  BuildMessageStructure(
    [fluds_                           |-> "fluds",
     done_sending                     |-> FALSE,
     data_initialized                 |-> FALSE,
     upstream_data_initialized        |-> FALSE,
     EAGER_LIMIT                      |-> sweep_eager_limit,
     max_num_mess                     |-> 0,
     prelocI_message_received         |-> <<>>,
     delayed_prelocI_message_received |-> <<>>,
     deplocI_message_request          |-> <<>>],
    pre, delayed, dep)

\* What is noted of a call: its name, the sweep it falls in, whether the
\* sends of the sweep have been issued and how often ClearSendPsi has been
\* called in the sweep; for ClearDownstreamBuffers also done_sending at
\* entry, whether a send was pending at entry, the number of MPI_Test calls
\* and whether ClearSendPsi was called; for Reset the object before it.
LogOf(call, sweep, sends_issued, clear_send_psi) ==
  [call |-> call, sweep |-> sweep, sends_issued |-> sends_issued,
   clear_send_psi |-> clear_send_psi,
   was_done |-> FALSE, pending |-> FALSE, tests |-> 0, stale_tests |-> 0, released |-> FALSE,
   before |-> <<>>]

SbInit ==
  /\ SerUnused
  /\ ProtoUnused
  /\ XsUnused
  /\ ObjUnused
  /\ TsUnused
  /\ \E lim \in EagerLimits : \E pre \in MessageCounts :
       \E delayed \in MessageCounts : \E dep \in MessageCounts :
         sweep_buffer = SweepBufferCtor(lim, pre, delayed, dep)
  /\ sweep_log = LogOf("SweepBuffer", 1, FALSE, 0)

\* bool DoneSending() const
DoneSending == sweep_buffer.done_sending

\* The (successor, message) slots in the order of the two nested loops.
RequestSlots(requests) ==
  LET RECURSIVE Slots(_, _)
      Slots(i, m) ==
        IF i > Len(requests) THEN <<>>
        ELSE IF m > Len(requests[i]) THEN Slots(i + 1, 1)
        ELSE <<(<<i, m>>)>> \o Slots(i, m + 1)
  IN Slots(1, 1)

\* Some send has been issued and has not completed.
SomeSendPending(requests) ==
  \E i \in 1 .. Len(requests) : \E m \in 1 .. Len(requests[i]) : requests[i][m].st = "active"

\* A request issued in an earlier sweep that MPI_Test has not yet retired.
LeftOver(request, sweep) == request.st # "null" /\ request.sweep < sweep

\* MPI_Test(&request, &message_sent, MPI_STATUS_IGNORE): a completed request
\* is retired to MPI_REQUEST_NULL, a null request counts as sent.
MPI_Test(request) ==
  CASE request.st = "active"   -> [request |-> request, message_sent |-> FALSE]
    [] request.st = "complete" -> [request |-> NullRequest, message_sent |-> TRUE]
    [] request.st = "null"     -> [request |-> request, message_sent |-> TRUE]

RECURSIVE TestLoopDoneAfterTest(_, _, _, _, _, _)
\* Mutant: done_sending is set by a request that tested as sent, not
\* before the loops.
TestLoopDoneAfterTest(requests, slots, k, sweep, tests, stale_tests) ==
  IF k > Len(slots)
  THEN [requests |-> requests, done_sending |-> tests > 0,
        tests |-> tests, stale_tests |-> stale_tests]
  ELSE LET sl     == slots[k]
           r      == MPI_Test(requests[sl[1]][sl[2]])
           reqs   == [requests EXCEPT ![sl[1]][sl[2]] = r.request]
           stale2 == stale_tests + (IF LeftOver(requests[sl[1]][sl[2]], sweep) THEN 1 ELSE 0)
       IN IF ~r.message_sent
          THEN [requests |-> reqs, done_sending |-> FALSE,
                tests |-> tests + 1, stale_tests |-> stale2]
          ELSE TestLoopDoneAfterTest(reqs, slots, k + 1, sweep, tests + 1, stale2)

RECURSIVE TestLoopNoReturn(_, _, _, _, _, _)
\* Mutant: a request that has not completed does not end the loop, and
\* done_sending stays as set before the loop.
TestLoopNoReturn(requests, slots, k, sweep, tests, stale_tests) ==
  IF k > Len(slots)
  THEN [requests |-> requests, done_sending |-> TRUE,
        tests |-> tests, stale_tests |-> stale_tests]
  ELSE LET sl == slots[k]
           r  == MPI_Test(requests[sl[1]][sl[2]])
       IN TestLoopNoReturn([requests EXCEPT ![sl[1]][sl[2]] = r.request], slots, k + 1,
                           sweep, tests + 1,
                           stale_tests + (IF LeftOver(requests[sl[1]][sl[2]], sweep) THEN 1 ELSE 0))

RECURSIVE TestLoop(_, _, _, _, _, _)
\* The two nested loops of ClearDownstreamBuffers from slot k on: what they
\* leave in the requests and in done_sending, and how many requests they
\* tested (stale_tests of them left over from an earlier sweep).
TestLoop(requests, slots, k, sweep, tests, stale_tests) ==
  IF k > Len(slots)
  THEN [requests |-> requests, done_sending |-> TRUE,
        tests |-> tests, stale_tests |-> stale_tests]
  ELSE LET sl     == slots[k]
           r      == MPI_Test(requests[sl[1]][sl[2]])
           reqs   == [requests EXCEPT ![sl[1]][sl[2]] = r.request]
           stale2 == stale_tests + (IF LeftOver(requests[sl[1]][sl[2]], sweep) THEN 1 ELSE 0)
       IN IF ~r.message_sent
          THEN [requests |-> reqs, done_sending |-> FALSE,
                tests |-> tests + 1, stale_tests |-> stale2]
          ELSE TestLoop(reqs, slots, k + 1, sweep, tests + 1, stale2)

\* Mutant: the poll does not return early once done.
ReturnsAtOnceNever(sb) == FALSE

\* if (done_sending) return;
ReturnsAtOnce(sb) == sb.done_sending

\* void ClearDownstreamBuffers(): the poll of the scheduler.
ClearDownstreamBuffers ==
  LET requests == sweep_buffer.deplocI_message_request
      log      == [LogOf("ClearDownstreamBuffers", sweep_log.sweep, sweep_log.sends_issued,
                         sweep_log.clear_send_psi)
                     EXCEPT !.was_done = sweep_buffer.done_sending,
                            !.pending = SomeSendPending(requests)]
      r        == TestLoop(requests, RequestSlots(requests), 1, sweep_log.sweep, 0, 0)
  IN /\ IF ReturnsAtOnce(sweep_buffer)
        THEN /\ sweep_buffer' = sweep_buffer
             /\ sweep_log' = log
        ELSE /\ sweep_buffer' = [sweep_buffer EXCEPT !.done_sending = r.done_sending,
                                                     !.deplocI_message_request = r.requests]
             /\ sweep_log' = [log EXCEPT !.tests = r.tests,
                                         !.stale_tests = r.stale_tests,
                                         !.released = r.done_sending,
                                         !.clear_send_psi =
                                            @ + (IF r.done_sending THEN 1 ELSE 0)]
     /\ UNCHANGED <<serVars, protoVars, xsVars, objVars, tsVars>>

\* Mutant: done_sending is left as it is.
ResetFieldsKeepDoneSending(sb) ==
  [sb EXCEPT
     !.data_initialized = FALSE,
     !.upstream_data_initialized = FALSE,
     !.prelocI_message_received = [i \in 1 .. Len(@) |-> [m \in 1 .. Len(@[i]) |-> FALSE]],
     !.delayed_prelocI_message_received =
        [i \in 1 .. Len(@) |-> [m \in 1 .. Len(@[i]) |-> FALSE]]]

\* Mutant: the flag arrays are emptied (clear()) instead of refilled.
ResetFieldsEmptyFlags(sb) ==
  [sb EXCEPT
     !.done_sending = FALSE,
     !.data_initialized = FALSE,
     !.upstream_data_initialized = FALSE,
     !.prelocI_message_received = [i \in 1 .. Len(@) |-> <<>>],
     !.delayed_prelocI_message_received = [i \in 1 .. Len(@) |-> <<>>]]

\* Mutant: the flags of the delayed predecessors are left as they are.
ResetFieldsKeepDelayedFlags(sb) ==
  [sb EXCEPT
     !.done_sending = FALSE,
     !.data_initialized = FALSE,
     !.upstream_data_initialized = FALSE,
     !.prelocI_message_received = [i \in 1 .. Len(@) |-> [m \in 1 .. Len(@[i]) |-> FALSE]]]

\* The assignments of Reset(): message_flags.assign(message_flags.size(), false)
\* on every flag array; nothing else of the object is written.
ResetFields(sb) ==
  [sb EXCEPT
     !.done_sending = FALSE,
     !.data_initialized = FALSE,
     !.upstream_data_initialized = FALSE,
     !.prelocI_message_received = [i \in 1 .. Len(@) |-> [m \in 1 .. Len(@[i]) |-> FALSE]],
     !.delayed_prelocI_message_received =
        [i \in 1 .. Len(@) |-> [m \in 1 .. Len(@[i]) |-> FALSE]]]

\* void Reset(): the next sweep begins.
Reset ==
  /\ sweep_log.sweep < MaxSweeps
  /\ sweep_buffer' = ResetFields(sweep_buffer)
  /\ sweep_log' = [LogOf("Reset", sweep_log.sweep + 1, FALSE, 0)
                     EXCEPT !.before = sweep_buffer]
  /\ UNCHANGED <<serVars, protoVars, xsVars, objVars, tsVars>>

\* The angle set is executed: the buffers are set up.
InitializeLocalAndDownstreamBuffers ==
  /\ ~sweep_buffer.data_initialized
  /\ sweep_buffer' = [sweep_buffer EXCEPT !.data_initialized = TRUE]
  /\ sweep_log' = LogOf("InitializeLocalAndDownstreamBuffers", sweep_log.sweep,
                         sweep_log.sends_issued, sweep_log.clear_send_psi)
  /\ UNCHANGED <<serVars, protoVars, xsVars, objVars, tsVars>>

\* A message of an ordinary predecessor is confirmed delivered.
ReceiveUpstreamPsi ==
  /\ \E i \in 1 .. Len(sweep_buffer.prelocI_message_received) :
       \E m \in 1 .. Len(sweep_buffer.prelocI_message_received[i]) :
         /\ ~sweep_buffer.prelocI_message_received[i][m]
         /\ sweep_buffer' = [sweep_buffer EXCEPT !.prelocI_message_received[i][m] = TRUE,
                                                 !.upstream_data_initialized = TRUE]
  /\ sweep_log' = LogOf("ReceiveUpstreamPsi", sweep_log.sweep,
                         sweep_log.sends_issued, sweep_log.clear_send_psi)
  /\ UNCHANGED <<serVars, protoVars, xsVars, objVars, tsVars>>

\* A message of a delayed predecessor is confirmed delivered.
ReceiveDelayedData ==
  /\ \E i \in 1 .. Len(sweep_buffer.delayed_prelocI_message_received) :
       \E m \in 1 .. Len(sweep_buffer.delayed_prelocI_message_received[i]) :
         /\ ~sweep_buffer.delayed_prelocI_message_received[i][m]
         /\ sweep_buffer' =
              [sweep_buffer EXCEPT !.delayed_prelocI_message_received[i][m] = TRUE]
  /\ sweep_log' = LogOf("ReceiveDelayedData", sweep_log.sweep,
                         sweep_log.sends_issued, sweep_log.clear_send_psi)
  /\ UNCHANGED <<serVars, protoVars, xsVars, objVars, tsVars>>

\* The outgoing messages of the sweep are sent: one MPI_Isend per request.
\* The scheduler sends once per sweep, before it has seen DoneSending().
SendDownstreamPsi ==
  /\ ~sweep_log.sends_issued
  /\ ~sweep_buffer.done_sending
  /\ sweep_buffer' =
       [sweep_buffer EXCEPT !.deplocI_message_request =
          [i \in 1 .. Len(@) |->
             [m \in 1 .. Len(@[i]) |-> [st |-> "active", sweep |-> sweep_log.sweep]]]]
  /\ sweep_log' = LogOf("SendDownstreamPsi", sweep_log.sweep, TRUE, sweep_log.clear_send_psi)
  /\ UNCHANGED <<serVars, protoVars, xsVars, objVars, tsVars>>

\* The transport completes a send.
CompleteSend ==
  /\ \E i \in 1 .. Len(sweep_buffer.deplocI_message_request) :
       \E m \in 1 .. Len(sweep_buffer.deplocI_message_request[i]) :
         /\ sweep_buffer.deplocI_message_request[i][m].st = "active"
         /\ sweep_buffer' =
              [sweep_buffer EXCEPT !.deplocI_message_request[i][m].st = "complete"]
  /\ sweep_log' = LogOf("CompleteSend", sweep_log.sweep,
                         sweep_log.sends_issued, sweep_log.clear_send_psi)
  /\ UNCHANGED <<serVars, protoVars, xsVars, objVars, tsVars>>

SbNext ==
  \/ ClearDownstreamBuffers
  \/ Reset
  \/ InitializeLocalAndDownstreamBuffers
  \/ ReceiveUpstreamPsi
  \/ ReceiveDelayedData
  \/ SendDownstreamPsi
  \/ CompleteSend

SbSpec == SbInit /\ [][SbNext]_vars

(***************************************************************************)
(* Properties of Part III.                                                 *)
(***************************************************************************)
\* Every request of the buffer has been tested complete (and so retired).
AllSendsObservedComplete ==
  \A i \in 1 .. Len(sweep_buffer.deplocI_message_request) :
    \A m \in 1 .. Len(sweep_buffer.deplocI_message_request[i]) :
      sweep_buffer.deplocI_message_request[i][m].st = "null"

\* C14: a ClearDownstreamBuffers call made while some send has not completed
\* returns with done_sending false and without the call of ClearSendPsi,
\* whichever call of the sweep it is; and DoneSending() is true only when
\* every send request has been observed complete.
C14_NotDoneWhilePending ==
  /\ (sweep_log.call = "ClearDownstreamBuffers" /\ sweep_log.pending) =>
       (~DoneSending /\ ~sweep_log.released /\ sweep_log.clear_send_psi = 0)
  /\ DoneSending => AllSendsObservedComplete

C14_Witness ==
  /\ sweep_log.call = "ClearDownstreamBuffers"
  /\ sweep_log.pending
  /\ sweep_log.tests = 2
  /\ sweep_log.sweep = 2

\* C15: within one sweep the ClearDownstreamBuffers call that finds no send
\* pending, and is the first to do so, sets done_sending and calls
\* ClearSendPsi; ClearSendPsi is called once in the sweep; every later call
\* of the sweep tests no request, releases nothing and changes nothing.
C15_ReleasedOnce ==
  /\ [](/\ sweep_log.clear_send_psi <= 1
        /\ DoneSending <=> sweep_log.clear_send_psi = 1
        /\ (sweep_log.call = "ClearDownstreamBuffers" /\ ~sweep_log.was_done) =>
             /\ sweep_log.released <=> ~sweep_log.pending
             /\ DoneSending <=> ~sweep_log.pending
        /\ (sweep_log.call = "ClearDownstreamBuffers" /\ sweep_log.was_done) =>
             /\ sweep_log.tests = 0
             /\ ~sweep_log.released
             /\ DoneSending)
  /\ [][(DoneSending /\ sweep_log'.call = "ClearDownstreamBuffers"
           /\ sweep_log'.sweep = sweep_log.sweep)
          => (sweep_buffer' = sweep_buffer
                /\ sweep_log'.clear_send_psi = sweep_log.clear_send_psi)]_vars

C15_Witness ==
  /\ sweep_log.call = "ClearDownstreamBuffers"
  /\ sweep_log.was_done
  /\ sweep_log.sends_issued
  /\ sweep_log.sweep = 2
  /\ sweep_log.clear_send_psi = 1

\* No flag of the flag arrays is set.
NoFlagSet(flags) ==
  \A i \in 1 .. Len(flags) : \A m \in 1 .. Len(flags[i]) : ~flags[i][m]

SomeFlagSet(flags) ==
  \E i \in 1 .. Len(flags) : \E m \in 1 .. Len(flags[i]) : flags[i][m]

\* C16: after Reset, whatever the state it is called in, done_sending,
\* data_initialized and upstream_data_initialized are false and no
\* received flag of an ordinary or of a delayed predecessor is set.
C16_ResetClearsFlags ==
  sweep_log.call = "Reset" =>
    /\ ~sweep_buffer.done_sending
    /\ ~sweep_buffer.data_initialized
    /\ ~sweep_buffer.upstream_data_initialized
    /\ NoFlagSet(sweep_buffer.prelocI_message_received)
    /\ NoFlagSet(sweep_buffer.delayed_prelocI_message_received)

C16_Witness ==
  /\ sweep_log.call = "Reset"
  /\ sweep_log.before.done_sending
  /\ sweep_log.before.data_initialized
  /\ sweep_log.before.upstream_data_initialized
  /\ SomeFlagSet(sweep_log.before.prelocI_message_received)
  /\ SomeFlagSet(sweep_log.before.delayed_prelocI_message_received)

\* A send request that is in flight: issued and not yet retired by MPI_Test.
InFlight(request) == request.st # "null"

\* C17: the whole pending-message state is reset with the sweep -- after
\* Reset no send handle is in flight, and a ClearDownstreamBuffers call
\* tests no handle left over from an earlier sweep.
C17_NoLeftOverHandles ==
  /\ sweep_log.call = "Reset" =>
       \A i \in 1 .. Len(sweep_buffer.deplocI_message_request) :
         \A m \in 1 .. Len(sweep_buffer.deplocI_message_request[i]) :
           ~InFlight(sweep_buffer.deplocI_message_request[i][m])
  /\ sweep_log.call = "ClearDownstreamBuffers" => sweep_log.stale_tests = 0

\* C18: Reset leaves the message structure of the constructor as it is --
\* as many predecessor entries and as many flags per predecessor, ordinary
\* and delayed, the same eager limit, max_num_mess and FLUDS; only the
\* values of the flags change.
C18_ResetKeepsStructure ==
  sweep_log.call = "Reset" =>
    LET b == sweep_log.before IN
    /\ sweep_buffer.EAGER_LIMIT = b.EAGER_LIMIT
    /\ sweep_buffer.max_num_mess = b.max_num_mess
    /\ sweep_buffer.fluds_ = b.fluds_
    /\ sweep_buffer.deplocI_message_request = b.deplocI_message_request
    /\ Len(sweep_buffer.prelocI_message_received) = Len(b.prelocI_message_received)
    /\ \A i \in 1 .. Len(b.prelocI_message_received) :
         Len(sweep_buffer.prelocI_message_received[i]) = Len(b.prelocI_message_received[i])
    /\ Len(sweep_buffer.delayed_prelocI_message_received)
         = Len(b.delayed_prelocI_message_received)
    /\ \A i \in 1 .. Len(b.delayed_prelocI_message_received) :
         Len(sweep_buffer.delayed_prelocI_message_received[i])
           = Len(b.delayed_prelocI_message_received[i])
    /\ DOMAIN sweep_buffer = DOMAIN b

C18_Witness ==
  /\ sweep_log.call = "Reset"
  /\ Len(sweep_buffer.prelocI_message_received) = 2
  /\ Len(sweep_buffer.delayed_prelocI_message_received) = 1
  /\ Len(sweep_buffer.delayed_prelocI_message_received[1]) = 2
  /\ SomeFlagSet(sweep_log.before.delayed_prelocI_message_received)
  /\ sweep_buffer.max_num_mess = 2
  /\ \E i \in 1 .. Len(sweep_buffer.deplocI_message_request) :
       sweep_buffer.deplocI_message_request[i][1].st = "active"

(***************************************************************************)
(* Further properties of Part II.                                          *)
(***************************************************************************)
\* Location p has issued the send of its successor index deplocI.
SendIssued(p, deplocI) == SendsOf(p, deplocI) # {}

\* Location p has released its send buffers (multi_face_indices.clear()).
Released(p) == Done(p)

\* C20: the source buffer of every send of step 1 or step 4 is neither
\* modified nor released until all sends are confirmed complete -- from the
\* send on it holds what was handed to MPI_Isend, a message still with the
\* transport is the content of its buffer, and the buffers are released
\* only when the wait on every request has returned.
C20_BuffersKeptUntilWaited ==
  \A p \in Locations :
    /\ ~Released(p) =>
         /\ Len(multi_face_indices[p]) = Len(location_successors[p])
         /\ \A k \in 1 .. Len(location_successors[p]) :
              LET locJ == location_successors[p][k] IN
              /\ ~SendIssued(p, k - 1) => multi_face_indices[p][k] = <<>>
              /\ SendIssued(p, k - 1) =>
                   /\ multi_face_indices[p][k] =
                        <<deplocI_face_dof_count(p, k - 1), 1, -p - 1, k - 1, locJ>>
                   /\ \A n \in 1 .. Len(mailbox[<<p, locJ>>]) :
                        mailbox[<<p, locJ>>][n].data = multi_face_indices[p][k]
    /\ Released(p) =>
         /\ \A k \in 1 .. Len(location_successors[p]) :
              /\ send_requests[p][k] = "null"
              /\ \E a \in 1 .. Len(events[p]) :
                   events[p][a].op = "wait" /\ events[p][a].index = k - 1
         /\ ~eager => \A q \in Locations \ {p} : mailbox[<<p, q>>] = <<>>

C20_Witness ==
  /\ ~eager
  /\ \E p \in Locations : \E q \in Locations :
       /\ Released(p)
       /\ Len(location_successors[p]) = 2
       /\ Len(delayed_location_successors[p]) = 1
       /\ q \in Range(location_successors[p])
       /\ ~Done(q)

\* The index of location p in the successor list of location q.
SuccessorIndex(q, p) ==
  CHOOSE k \in 1 .. Len(location_successors[q]) : location_successors[q][k] = p

\* The face dof counts location p should hold for the predecessors deps.
CountsFrom(p, deps) ==
  [i \in 1 .. Len(deps) |-> deplocI_face_dof_count(deps[i], SuccessorIndex(deps[i], p) - 1)]

\* C21: when InitializeBetaElements has returned on a location, its
\* outgoing views, the views received from ordinary predecessors and the
\* views received from delayed predecessors are empty, and the face dof
\* counts received from every ordinary and every delayed predecessor are
\* still there.
C21_ViewsReleasedCountsKept ==
  \A p \in Locations :
    Done(p) =>
      /\ deplocI_cell_views[p] = <<>>
      /\ prelocI_cell_views[p] = <<>>
      /\ delayed_prelocI_cell_views[p] = <<>>
      /\ prelocI_face_dof_count[p] = CountsFrom(p, location_dependencies[p])
      /\ delayed_prelocI_face_dof_count[p] = CountsFrom(p, delayed_location_dependencies[p])

C21_Witness ==
  \E p \in Locations :
    /\ Done(p)
    /\ Len(location_dependencies[p]) >= 1
    /\ Len(delayed_location_dependencies[p]) >= 1
    /\ \E k \in 1 .. Len(prelocI_face_dof_count[p]) : prelocI_face_dof_count[p][k] = 2

\* Location p has not returned and cannot carry out its next operation.
Suspended(p) == ~Done(p) /\ ~ENABLED LocationStep(p)

\* Location p is in MPI_Wait on a send the receiver has not taken yet.
WaitBlocked(p) ==
  /\ pc[p].phase = "wait"
  /\ send_requests[p][pc[p].i + 1] = "active"

\* C22 as stated: a location is suspended in the receives of step 2 and
\* step 3 only; never in step 1, 4 or 5.
C22_OnlyReceivesSuspend ==
  \A p \in Locations :
    Suspended(p) => pc[p].phase \in {"recv_delayed", "recv_ordinary"}

\* C22 amended: a location is suspended only in a receive of step 2 or
\* step 3 whose message has not been sent, or in the MPI_Wait of step 5 on
\* a send that the transport has not buffered and the receiver has not
\* taken; the sends of step 1 and step 4 and the release never suspend it,
\* and with a buffering transport step 5 does not either.
C22_ReceivesAndWaitSuspend ==
  \A p \in Locations :
    Suspended(p) =>
      \/ pc[p].phase \in {"recv_delayed", "recv_ordinary"} /\ \E q \in Locations : RecvBlocked(p, q)
      \/ WaitBlocked(p) /\ ~eager

C22_Witness ==
  \E p \in Locations :
    /\ Suspended(p)
    /\ WaitBlocked(p)
    /\ Len(events[location_successors[p][pc[p].i + 1]]) >= 1

(***************************************************************************)
(* Part II with several calls per location: after one call of              *)
(* InitializeBetaElements has returned, the location's next FLUDS is        *)
(* initialized with the next tag index while messages of the earlier        *)
(* exchange may still be on their way.                                      *)
(***************************************************************************)
MaxTags == 2
MaxTagEdges == 2

TagIndices == 0 .. (MaxTags - 1)

\* The orders in which a location's caller goes through the tag indices.
TagOrders == Perms(TagIndices)

\* A location without a neighbour exchanges nothing: one call of it is
\* followed.  Every other location makes one call per tag index.
TagInit ==
  /\ ExchangeInit
  /\ EdgeCount <= MaxTagEdges
  /\ tag_index \in
       ListChoices([p \in Locations |->
                      IF Len(location_successors[p]) + Len(location_dependencies[p])
                           + Len(delayed_location_dependencies[p]) = 0
                      THEN {<<0>>} ELSE TagOrders],
                   Locations)

\* The caller sets up the next FLUDS of location p and calls
\* InitializeBetaElements on it with the next tag index.
NextCall(p) ==
  /\ Done(p)
  /\ Len(tag_index[p]) > 1
  /\ tag_index' = [tag_index EXCEPT ![p] = Tail(@)]
  /\ deplocI_cell_views' =
       [deplocI_cell_views EXCEPT ![p] =
          [k \in 1 .. Len(location_successors[p]) |->
             OutgoingCellViews(p, k - 1, location_successors[p][k])]]
  /\ multi_face_indices' =
       [multi_face_indices EXCEPT ![p] = [k \in 1 .. Len(location_successors[p]) |-> <<>>]]
  /\ send_requests' =
       [send_requests EXCEPT ![p] = [k \in 1 .. Len(location_successors[p]) |-> "unissued"]]
  /\ prelocI_cell_views' = [prelocI_cell_views EXCEPT ![p] = <<>>]
  /\ prelocI_face_dof_count' = [prelocI_face_dof_count EXCEPT ![p] = <<>>]
  /\ delayed_prelocI_cell_views' = [delayed_prelocI_cell_views EXCEPT ![p] = <<>>]
  /\ delayed_prelocI_face_dof_count' = [delayed_prelocI_face_dof_count EXCEPT ![p] = <<>>]
  /\ pc' = [pc EXCEPT ![p] = NextOp(p, "start", 0)]
  /\ UNCHANGED <<location_successors, delayed_location_successors, location_dependencies,
                 delayed_location_dependencies, item_id>>
  /\ UNCHANGED <<mailbox, eager, events, cell_order, serVars, sbVars, xsVars, objVars, tsVars>>

TagNext ==
  \/ \E p \in Locations : LocationStep(p)
  \/ \E p \in Locations : NextCall(p)

TagSpec == TagInit /\ [][TagNext]_vars

\* The places in the calls of location q of its sends to p for tag index t.
SendPlaces(q, p, t) ==
  {k \in 1 .. Len(events[q]) :
     /\ events[q][k].op = "send"
     /\ events[q][k].peer = p
     /\ events[q][k].tag_index = t}

\* C23: a receive issued for tag index i takes a message sent for tag
\* index i, never one sent for another tag index, whatever messages of
\* other exchanges between the two locations are in flight.
C23_NoCrossTalk ==
  \A p \in Locations : \A k \in 1 .. Len(events[p]) :
    events[p][k].op = "recv" => events[p][k].sent_for = events[p][k].tag_index

\* A receive has taken the message of its tag index while an earlier
\* message of the same sender for another tag index stayed in flight.
C23_Witness ==
  \E p \in Locations : \E q \in Locations \ {p} :
    /\ Len(events[p]) >= 1
    /\ LET last == events[p][Len(events[p])] IN
         /\ last.op = "recv"
         /\ last.peer = q
         /\ \E n \in 1 .. Len(mailbox[<<q, p>>]) :
              LET other == mailbox[<<q, p>>][n].sent_for IN
              /\ other # last.tag_index
              /\ \E a \in SendPlaces(q, p, other) :
                   \E b \in SendPlaces(q, p, last.tag_index) : a < b

\* The receives of step 3 location p has completed, in order.
OrdinaryRecvs(p) ==
  SelectSeq(events[p], LAMBDA e : e.op = "recv" /\ e.step = 3)

\* What DeSerializeCellInfo makes of the message location q sends to p.
DecodedFrom(q, p) ==
  LET deplocI == SuccessorIndex(q, p) - 1
      ub      == CHOOSE u \in UBOutcomes : TRUE
      buf     == SerializeCellInfo(OutgoingCellViews(q, deplocI, p), <<>>,
                                   deplocI_face_dof_count(q, deplocI), ub)
  IN DeSerializeCellInfo(<<>>, buf, ub)

\* C24: the ordinary predecessors are received from in the order of
\* location_dependencies -- the k-th receive of step 3 is the one from the
\* k-th entry, a location in the third loop has completed exactly the
\* receives before the one it is at, whatever other messages have arrived
\* -- and what is decoded from a predecessor is stored at its index.
C24_OrdinaryReceivesInListOrder ==
  \A p \in Locations :
    LET recvs == OrdinaryRecvs(p) IN
    /\ Len(recvs) <= Len(location_dependencies[p])
    /\ pc[p].phase = "recv_ordinary" => Len(recvs) = pc[p].i
    /\ \A k \in 1 .. Len(recvs) :
         LET locJ == location_dependencies[p][k] IN
         /\ recvs[k].index = k - 1
         /\ recvs[k].peer = locJ
         /\ prelocI_face_dof_count[p][k] = DecodedFrom(locJ, p).num_face_dofs
         /\ ~Done(p) => prelocI_cell_views[p][k] = DecodedFrom(locJ, p).cell_views

\* Location p has received from both its ordinary predecessors, first in
\* the list first, although the message of the second was sent before the
\* first predecessor, which had to hear from the second, could send.
C24_Witness ==
  \E p \in Locations : \E q1 \in Locations \ {p} : \E q2 \in Locations \ {p, q1} :
    /\ location_dependencies[p] = <<q1, q2>>
    /\ location_dependencies[q1] = <<q2>>
    /\ location_successors[q2] = <<p, q1>>
    /\ delayed_location_successors[q2] = <<>>
    /\ Len(OrdinaryRecvs(p)) = 2
    /\ ~Done(p)

NonNegativeVertexIds(cell_views) ==
  \A c \in 1 .. Len(cell_views) : \A f \in 1 .. Len(cell_views[c].second) :
    \A v \in 1 .. Len(cell_views[c].second[f].second) :
      cell_views[c].second[f].second[v] >= 0

\* C25: for every input list in which each cell has a face, adjacent cells
\* differ in global id and no vertex id is negative, the first num_cells
\* entries of the decoded list equal the input entry by entry and the
\* decoded list is num_cells long, num_cells being the header value.
C25_PrefixAndLength ==
  (ser_stage = "deserialized" /\ EveryCellHasAFace(in_cell_views)
     /\ AdjacentIdsDiffer(in_cell_views) /\ NonNegativeVertexIds(in_cell_views))
    => LET num_cells == face_indices[2] IN
         /\ Len(out_cell_views) = num_cells
         /\ \A c \in 1 .. num_cells : out_cell_views[c] = in_cell_views[c]

\* What C26 asks of the lists: no location is both an ordinary and a delayed
\* predecessor, the delayed successors are successors, and b lists a as a
\* predecessor exactly when a lists b as a successor.
ListsMatch ==
  \A a \in Locations : \A b \in Locations :
    /\ ~(OrdinaryEdge(a, b) /\ DelayedEdge(a, b))
    /\ b \in Range(delayed_location_successors[a]) => b \in Range(location_successors[a])
    /\ (OrdinaryEdge(a, b) \/ DelayedEdge(a, b)) <=> b \in Range(location_successors[a])

\* Number of MPI_Isend calls of a to b, and of receives b has made from a.
SendsTo(a, b) ==
  Cardinality({k \in 1 .. Len(events[a]) : events[a][k].op = "send" /\ events[a][k].peer = b})

RecvsFrom(b, a) ==
  Cardinality({k \in 1 .. Len(events[b]) : events[b][k].op = "recv" /\ events[b][k].peer = a})

EdgesTo(a, b) == IF b \in Range(location_successors[a]) THEN 1 ELSE 0

\* C26: with matching lists, for every ordered pair (a, b) every message a
\* has sent to b is either received by b or still on its way; a location
\* that has finished has sent one message to each successor and none to
\* anyone else, and has received one message from each predecessor and none
\* from anyone else; when all have finished no message is left unreceived.
C26_SendsMatchReceives ==
  ListsMatch =>
    \A a \in Locations : \A b \in Locations \ {a} :
      /\ SendsTo(a, b) = RecvsFrom(b, a) + Len(mailbox[<<a, b>>])
      /\ SendsTo(a, b) <= EdgesTo(a, b)
      /\ Done(a) => SendsTo(a, b) = EdgesTo(a, b)
      /\ Done(b) => RecvsFrom(b, a) = EdgesTo(a, b)
      /\ AllDone => mailbox[<<a, b>>] = <<>>

C26_Witness ==
  /\ ListsMatch
  /\ AllDone
  /\ EdgeCount = MaxEdges
  /\ \E a \in Locations : \E b \in Locations : \E c \in Locations :
       DelayedEdge(a, b) /\ OrdinaryEdge(b, c)

\* C27: what a receive of step 2 or step 3 hands to DeSerializeCellInfo is,
\* in length and in content, the sequence the sender's SerializeCellInfo
\* produced for the receiving location.
C27_ReceivedIsWhatWasSent ==
  \A p \in Locations : \A k \in 1 .. Len(events[p]) :
    LET ev == events[p][k] IN
    ev.op = "recv" =>
      /\ ev.step \in {2, 3}
      /\ \E a \in 1 .. Len(events[ev.peer]) :
           LET snd == events[ev.peer][a] IN
           /\ snd.op = "send"
           /\ snd.peer = p
           /\ Len(ev.received) = Len(snd.sent)
           /\ ev.received = snd.sent

\* A location has received, in step 2 and in step 3, buffers of different
\* lengths.
C27_Witness ==
  \E p \in Locations : \E a \in 1 .. Len(events[p]) : \E b \in 1 .. Len(events[p]) :
    /\ events[p][a].op = "recv" /\ events[p][a].step = 2
    /\ events[p][b].op = "recv" /\ events[p][b].step = 3
    /\ Len(events[p][a].received) >= 4
    /\ events[p][a].received # events[p][b].received

(***************************************************************************)
(* Part IV: TransportCrossSections::Finalize, the checks of the fission    *)
(* data.  A double is a fraction num/den with den > 0; den = 0 stands for  *)
(* the result of a division by zero, which is not a number one can compare *)
(* with.  The absorption cross section and the diffusion parameters, also  *)
(* set by Finalize, are not among the fields followed here.                *)
(***************************************************************************)
MaxGroups == 2
MaxPrecursors == 1

RECURSIVE Gcd(_, _)
Gcd(a, b) == IF b = 0 THEN a ELSE Gcd(b, a % b)

\* The fraction n/d, d > 0, in lowest terms.
Fraction(n, d) ==
  LET g == Gcd(IF n < 0 THEN -n ELSE n, d) IN [num |-> n \div g, den |-> d \div g]

Half(n) == Fraction(n, 2)
Zero == Half(0)
NotANumber == [num |-> 0, den |-> 0]

IsZero(x) == x.den # 0 /\ x.num = 0
GeZero(x) == x.den # 0 /\ x.num >= 0
GtZero(x) == x.den # 0 /\ x.num > 0
GtOne(x) == x.den # 0 /\ x.num > x.den
LeOne(x) == x.den # 0 /\ x.num <= x.den

Plus(x, y) ==
  IF x.den = 0 \/ y.den = 0 THEN NotANumber
  ELSE Fraction(x.num * y.den + y.num * x.den, x.den * y.den)

Times(x, y) ==
  IF x.den = 0 \/ y.den = 0 THEN NotANumber
  ELSE Fraction(x.num * y.num, x.den * y.den)

OneMinus(x) ==
  IF x.den = 0 THEN NotANumber ELSE [num |-> x.den - x.num, den |-> x.den]

Over(x, y) ==
  IF x.den = 0 \/ y.den = 0 \/ y.num = 0 THEN NotANumber
  ELSE IF y.num > 0 THEN Fraction(x.num * y.den, x.den * y.num)
  ELSE Fraction(-(x.num * y.den), x.den * (-y.num))

RECURSIVE Accumulate(_)
\* std::accumulate(vec.begin(), vec.end(), 0.0)
Accumulate(vec) ==
  IF vec = <<>> THEN Zero ELSE Plus(Head(vec), Accumulate(Tail(vec)))

\* for g: vec[g] /= sum, over the first n entries
Normalized(vec, n) ==
  LET sum == Accumulate(vec) IN
  [g \in 1 .. Len(vec) |-> IF g <= n THEN Over(vec[g], sum) ELSE vec[g]]

\* Mutant: the signs of the entries are not looked at.
is_validWhenGiven(vec) == vec # <<>>

\* The lambda is_valid: not empty and no entry below zero.
is_valid(vec) == vec # <<>> /\ \A g \in 1 .. Len(vec) : GeZero(vec[g])

AllZero(vec) == \A g \in 1 .. Len(vec) : IsZero(vec[g])
AllZeroOrAboveOne(vec) == \A g \in 1 .. Len(vec) : IsZero(vec[g]) \/ GtOne(vec[g])
AllGeZero(vec) == \A g \in 1 .. Len(vec) : GeZero(vec[g])
AllInUnitRange(vec) == \A g \in 1 .. Len(vec) : GeZero(vec[g]) /\ LeOne(vec[g])

Thrown(x, what) == [xs |-> x, thrown |-> what]
Passed(x) == [xs |-> x, thrown |-> "none"]

\* if (!is_fissionable): every fission-related property is cleared.
ClearFission(x) ==
  [x EXCEPT !.num_precursors = 0, !.sigma_f = <<>>, !.nu_sigma_f = <<>>,
            !.nu_prompt_sigma_f = <<>>, !.nu_delayed_sigma_f = <<>>,
            !.nu = <<>>, !.nu_prompt = <<>>, !.nu_delayed = <<>>, !.beta = <<>>,
            !.chi = <<>>, !.chi_prompt = <<>>, !.precursors = <<>>]

\* Carries on with the next part of Finalize unless an exception is on its way.
Then(r, Part(_)) == IF r.thrown # "none" THEN r ELSE Part(r.xs)

\* Check fission yield data (prompt/delayed specification).
CheckYields(x) ==
  LET G == x.num_groups IN
  IF is_valid(x.nu_prompt) /\ is_valid(x.nu_delayed)
  THEN IF ~AllZeroOrAboveOne(x.nu_prompt) /\ ~AllGeZero(x.nu_delayed)
       THEN Thrown(x, "Invalid prompt and delayed fission neutron yields encountered.")
       ELSE LET nu == [g \in 1 .. G |-> Plus(x.nu_prompt[g], x.nu_delayed[g])]
            IN Passed([x EXCEPT !.nu = nu,
                                !.beta = [g \in 1 .. G |-> Over(x.nu_delayed[g], nu[g])]])
  ELSE IF is_valid(x.nu) /\ is_valid(x.beta)
  THEN IF ~AllZeroOrAboveOne(x.nu)
       THEN Thrown(x, "Invalid fission neutron yield data encountered.")
       ELSE IF ~AllInUnitRange(x.beta)
       THEN Thrown(x, "Invalid delayed neutron fraction data encountered.")
       ELSE Passed([x EXCEPT
              !.nu_prompt = [g \in 1 .. G |-> Times(OneMinus(x.beta[g]), x.nu[g])],
              !.nu_delayed = [g \in 1 .. G |-> Times(x.beta[g], x.nu[g])]])
  ELSE Thrown(x, "Invalid specification of prompt/delayed fission neutron yield data encountered.")

\* sigma_f[g] = nu_sigma_f[g] / nu[g] where nu[g] != 0.0, else 0.0
FissionFromProduction(x) ==
  [g \in 1 .. x.num_groups |->
     IF ~IsZero(x.nu[g]) THEN Over(x.nu_sigma_f[g], x.nu[g]) ELSE Zero]

\* Compute all production cross sections (prompt/delayed specification).
ComputeProduction(x) ==
  LET sigma_f == IF ~is_valid(x.sigma_f) THEN FissionFromProduction(x) ELSE x.sigma_f
      G       == x.num_groups
  IN Passed([x EXCEPT
       !.sigma_f = sigma_f,
       !.nu_sigma_f = [g \in 1 .. G |-> Times(x.nu[g], sigma_f[g])],
       !.nu_prompt_sigma_f = [g \in 1 .. G |-> Times(x.nu_prompt[g], sigma_f[g])],
       !.nu_delayed_sigma_f = [g \in 1 .. G |-> Times(x.nu_delayed[g], sigma_f[g])]])

\* Check prompt fission spectrum.
CheckPromptSpectrum(x) ==
  IF x.chi_prompt = <<>> THEN Thrown(x, "Prompt fission spectrum not found.")
  ELSE IF AllZero(x.chi_prompt)
  THEN Thrown(x, "Invalid prompt fission spectrum encountered.")
  ELSE Passed([x EXCEPT !.chi_prompt = Normalized(x.chi_prompt, x.num_groups)])

RECURSIVE YieldSum(_)
YieldSum(precursors) ==
  IF precursors = <<>> THEN Zero
  ELSE Plus(YieldSum(SubSeq(precursors, 1, Len(precursors) - 1)),
            precursors[Len(precursors)].fractional_yield)

RECURSIVE CheckEmissionSpectra(_, _)
\* for j: the emission spectrum of precursor j is checked, then normalized.
CheckEmissionSpectra(x, j) ==
  IF j > x.num_precursors THEN Passed(x)
  ELSE IF AllZero(x.precursors[j].emission_spectrum)
  THEN Thrown(x, "Invalid delayed emission spectra encountered for precursor species.")
  ELSE CheckEmissionSpectra(
         [x EXCEPT !.precursors[j].emission_spectrum = Normalized(@, x.num_groups)], j + 1)

\* Check precursor data.
CheckPrecursors(x) ==
  LET P == x.precursors IN
  IF P = <<>> THEN Thrown(x, "No precursors found.")
  ELSE IF ~\A j \in 1 .. Len(P) : GtZero(P[j].decay_constant)
  THEN Thrown(x, "Invalid precursor decay constant encountered.")
  ELSE IF \A j \in 1 .. Len(P) : IsZero(P[j].fractional_yield)
  THEN Thrown(x, "Invalid precursor yield fractions encountered.")
  ELSE IF ~\A j \in 1 .. Len(P) : GeZero(P[j].fractional_yield) /\ LeOne(P[j].fractional_yield)
  THEN Thrown(x, "Invalid delayed neutron precursor yield fraction encountered.")
  ELSE LET yield_sum == YieldSum(P) IN
       CheckEmissionSpectra(
         [x EXCEPT !.precursors =
            [j \in 1 .. Len(P) |->
               IF j <= x.num_precursors
               THEN [P[j] EXCEPT !.fractional_yield = Over(@, yield_sum)]
               ELSE P[j]]], 1)

RECURSIVE DelayedEmission(_, _, _)
\* sum over j of beta[g] * fractional_yield * emission_spectrum[g]
DelayedEmission(x, g, j) ==
  IF j = 0 THEN Zero
  ELSE Plus(DelayedEmission(x, g, j - 1),
            Times(Times(x.beta[g], x.precursors[j].fractional_yield),
                  x.precursors[j].emission_spectrum[g]))

\* Compute the steady-state fission spectrum.
ComputeSteadyStateSpectrum(x) ==
  LET chi == [g \in 1 .. x.num_groups |->
                Plus(Times(OneMinus(x.beta[g]), x.chi_prompt[g]),
                     DelayedEmission(x, g, x.num_precursors))]
  IN Passed([x EXCEPT !.chi = Normalized(chi, x.num_groups)])

\* check total nu (total/steady-state specification)
CheckTotalNu(x) ==
  IF x.nu = <<>> THEN Thrown(x, "Total neutrons per fission not found.")
  ELSE IF ~AllZeroOrAboveOne(x.nu)
  THEN Thrown(x, "Invalid total fission neutron yield encountered.")
  ELSE LET sigma_f == IF x.sigma_f = <<>> THEN FissionFromProduction(x) ELSE x.sigma_f IN
       Passed([x EXCEPT
         !.sigma_f = sigma_f,
         !.nu_sigma_f = [g \in 1 .. x.num_groups |-> Times(x.nu[g], sigma_f[g])]])

\* check and normalize total fission spectrum
CheckTotalSpectrum(x) ==
  IF x.chi = <<>> THEN Thrown(x, "Total fission spectrum not found.")
  ELSE IF ~AllZero(x.chi)
  THEN Thrown(x, "Invalid total fission spectrum encountered.")
  ELSE Passed([x EXCEPT !.chi = Normalized(x.chi, x.num_groups)])

\* void TransportCrossSections::Finalize(), on the fields x.
FinalizeFission(x) ==
  LET fissionable == is_valid(x.sigma_f) \/ is_valid(x.nu_sigma_f)
      y           == [x EXCEPT !.is_fissionable = fissionable]
  IN IF ~fissionable THEN Passed(ClearFission(y))
     ELSE IF y.num_precursors > 0
     THEN Then(Then(Then(Then(CheckYields(y), ComputeProduction), CheckPromptSpectrum),
                    CheckPrecursors), ComputeSteadyStateSpectrum)
     ELSE Then(CheckTotalNu(y), CheckTotalSpectrum)

\* The doubles the fields are filled with: -0.5, 0, 0.5 and 2.
InputValues == {Half(-1), Zero, Half(1), Half(4)}

\* A vector is not given, or has one entry per group.
Vectors(G, V) == {<<>>} \cup [1 .. G -> V]

Filled(G, v) == [g \in 1 .. G |-> v]

\* A cross section vector with a negative entry in the first group.
FirstNegative(G) == [g \in 1 .. G |-> IF g = 1 THEN Half(-1) ELSE Half(2)]

\* A precursor in order, and precursors with a zero decay constant, a zero
\* yield fraction and a zero emission spectrum.
PrecursorChoices(G) ==
  {[decay_constant |-> d, fractional_yield |-> y, emission_spectrum |-> Filled(G, e)] :
     <<d, y, e>> \in {<<Half(1), Half(1), Half(1)>>, <<Zero, Half(1), Half(1)>>,
                      <<Half(1), Zero, Half(1)>>, <<Half(1), Half(1), Zero>>}}

\* The object before Finalize: the total/steady-state specification
\* (num_precursors = 0) with its nu and chi, or the prompt/delayed
\* specification with its yields, spectra and precursors.  The fields a
\* specification does not read are left empty.
XsInit ==
  /\ SerUnused
  /\ ProtoUnused
  /\ SbUnused
  /\ ObjUnused
  /\ TsUnused
  /\ \E G \in 1 .. MaxGroups : \E np \in 0 .. MaxPrecursors :
       \E sigma_f \in {<<>>, Filled(G, Half(2)), FirstNegative(G)} :
       \E nu_sigma_f \in {<<>>, Filled(G, Half(2)), FirstNegative(G)} :
       \E nu \in (IF np = 0 THEN Vectors(G, {Zero, Half(1), Half(4)})
                  ELSE {<<>>, Filled(G, Half(4))}) :
       \E beta \in (IF np = 0 THEN {<<>>} ELSE {<<>>, Filled(G, Half(1))}) :
       \E nu_prompt \in (IF np = 0 THEN {<<>>} ELSE Vectors(G, InputValues)) :
       \E nu_delayed \in (IF np = 0 THEN {<<>>} ELSE Vectors(G, InputValues)) :
       \E chi \in (IF np = 0 THEN Vectors(G, {Half(-1), Zero, Half(1)}) ELSE {<<>>}) :
       \E chi_prompt \in (IF np = 0 THEN {<<>>}
                          ELSE {<<>>, Filled(G, Zero), Filled(G, Half(1))}) :
       \E precursors \in (IF np = 0 THEN {<<>>}
                          ELSE {<<>>} \cup [1 .. np -> PrecursorChoices(G)]) :
         xs = [num_groups |-> G, num_precursors |-> np, is_fissionable |-> FALSE,
               sigma_f |-> sigma_f, nu_sigma_f |-> nu_sigma_f,
               nu_prompt_sigma_f |-> <<>>, nu_delayed_sigma_f |-> <<>>,
               nu |-> nu, nu_prompt |-> nu_prompt, nu_delayed |-> nu_delayed,
               beta |-> beta, chi |-> chi, chi_prompt |-> chi_prompt,
               precursors |-> precursors]
  /\ xs_given = xs
  /\ xs_thrown = ""

Finalize ==
  /\ xs_thrown = ""
  /\ LET r == FinalizeFission(xs) IN
       /\ xs' = r.xs
       /\ xs_thrown' = r.thrown
  /\ UNCHANGED xs_given
  /\ UNCHANGED <<serVars, protoVars, sbVars, objVars, tsVars>>

XsNext == Finalize

XsSpec == XsInit /\ [][XsNext]_vars

(***************************************************************************)
(* Properties of Part IV.                                                  *)
(***************************************************************************)
\* Finalize has run on fissionable data.
FinalizedFissionable ==
  /\ xs_thrown # ""
  /\ is_valid(xs_given.sigma_f) \/ is_valid(xs_given.nu_sigma_f)

\* C28: in the total/steady-state specification (fissionable,
\* num_precursors = 0), once the total nu has been accepted, Finalize throws
\* the total fission spectrum error exactly when chi is not empty and all
\* its entries are zero; a chi with a non-zero entry is accepted and
\* normalised.
C28_AllZeroSpectrumRejected ==
  (FinalizedFissionable /\ xs_given.num_precursors = 0
     /\ xs_given.nu # <<>> /\ AllZeroOrAboveOne(xs_given.nu))
    => /\ (xs_thrown = "Invalid total fission spectrum encountered.")
            <=> (xs_given.chi # <<>> /\ AllZero(xs_given.chi))
       /\ (xs_given.chi # <<>> /\ ~AllZero(xs_given.chi))
            => /\ xs_thrown = "none"
               /\ xs.chi = Normalized(xs_given.chi, xs_given.num_groups)

\* C29: in the prompt/delayed specification with nu_prompt and nu_delayed
\* both given, Finalize throws the prompt and delayed yields error whenever
\* some prompt yield is neither zero nor above one or some delayed yield is
\* negative, so that nu and beta are not computed from such yields.
C29_BadYieldsRejected ==
  (FinalizedFissionable /\ xs_given.num_precursors > 0
     /\ xs_given.nu_prompt # <<>> /\ xs_given.nu_delayed # <<>>
     /\ (~AllZeroOrAboveOne(xs_given.nu_prompt) \/ ~AllGeZero(xs_given.nu_delayed)))
    => /\ xs_thrown = "Invalid prompt and delayed fission neutron yields encountered."
       /\ xs.nu = xs_given.nu
       /\ xs.beta = xs_given.beta

(***************************************************************************)
(* Part V: ChiObjectMaker::MakeRegisteredObjectOfType.  The registry is    *)
(* filled before any object is made; an entry may lack a constructor.      *)
(***************************************************************************)
MaxObjects == 3

TypeNames == {"type_a", "type_b", "type_c"}

\* size_t stack_id_ = chi::SIZE_T_INVALID, the id of an object on no stack.
SIZE_T_INVALID == -1

\* The parameter blocks handed in: one naming each type in the field
\* chi_obj_type, and one without that field.
ParameterBlocks ==
  {[chi_obj_type |-> t] : t \in TypeNames} \cup {[name |-> "unnamed"]}

NoCall == [call |-> "", type |-> "", params |-> [name |-> ""], thrown |-> "",
           handle |-> SIZE_T_INVALID, constructed |-> 0, before |-> <<>>]

ObjInit ==
  /\ SerUnused
  /\ ProtoUnused
  /\ SbUnused
  /\ XsUnused
  /\ TsUnused
  /\ \E keys \in SUBSET TypeNames :
       object_registry_ \in [keys -> [constructor_func : BOOLEAN]]
  /\ object_stack = <<>>
  /\ make_log = NoCall

\* object_registry_.count(key) > 0
RegistryHasKey(key) == key \in DOMAIN object_registry_

\* Mutant: every entry is taken to have a constructor.
HasConstructorAlways(object_entry) == TRUE

\* What ChiLogicalErrorIf(not object_entry.constructor_func, ...) tests.
HasConstructor(object_entry) == object_entry.constructor_func

\* object_entry.constructor_func(input_params): a new object on no stack.
Construct(type) == [type |-> type, stack_id |-> SIZE_T_INVALID]

\* ChiObject::PushOntoStack, as ChiObject defines it: the object is added to
\* the object stack and told its place there.
PushOntoStack(stack, new_object) ==
  Append(stack, [new_object EXCEPT !.stack_id = Len(stack)])

\* The body of MakeRegisteredObjectOfType, entered from call.
MakeObjectOfType(call, type, params) ==
  LET failed(what) == [call |-> call, type |-> type, params |-> params, thrown |-> what,
                       handle |-> SIZE_T_INVALID, constructed |-> 0,
                       before |-> object_stack]
  IN
  /\ Len(object_stack) < MaxObjects
  /\ IF ~RegistryHasKey(type)
     THEN /\ make_log' = failed("No registered type found.")
          /\ UNCHANGED object_stack
     ELSE LET object_entry == object_registry_[type] IN
          IF ~HasConstructor(object_entry)
          THEN /\ make_log' =
                    failed("Object is not constructable since it has no registered constructor")
               /\ UNCHANGED object_stack
          ELSE LET new_object == Construct(type)
                   stack      == PushOntoStack(object_stack, new_object)
               IN /\ object_stack' = stack
                  /\ make_log' = [call |-> call, type |-> type, params |-> params,
                                  thrown |-> "none",
                                  handle |-> stack[Len(stack)].stack_id,
                                  constructed |-> 1, before |-> object_stack]
  /\ UNCHANGED object_registry_
  /\ UNCHANGED <<serVars, protoVars, sbVars, xsVars, tsVars>>

MakeRegisteredObjectOfType(type, params) ==
  MakeObjectOfType("MakeRegisteredObjectOfType", type, params)

\* params.Has("chi_obj_type")
HasObjectType(params) == "chi_obj_type" \in DOMAIN params

\* Mutant: the type made does not come from the parameter block.
ObjectTypeFixed(params) == "type_a"

\* params.GetParamValue<std::string>("chi_obj_type")
ObjectTypeOf(params) == params.chi_obj_type

MakeRegisteredObject(params) ==
  IF ~HasObjectType(params)
  THEN /\ Len(object_stack) < MaxObjects
       /\ make_log' = [call |-> "MakeRegisteredObject", type |-> "", params |-> params,
                       thrown |-> "std::invalid_argument", handle |-> SIZE_T_INVALID,
                       constructed |-> 0, before |-> object_stack]
       /\ UNCHANGED <<object_registry_, object_stack>>
       /\ UNCHANGED <<serVars, protoVars, sbVars, xsVars, tsVars>>
  ELSE MakeObjectOfType("MakeRegisteredObject", ObjectTypeOf(params), params)

ObjNext ==
  \/ \E type \in TypeNames : \E params \in ParameterBlocks :
       MakeRegisteredObjectOfType(type, params)
  \/ \E params \in ParameterBlocks : MakeRegisteredObject(params)

ObjSpec == ObjInit /\ [][ObjNext]_vars

(***************************************************************************)
(* Part VI: TransientSolver::SetTransientSource.                           *)
(*                                                                         *)
(* One local cell with one node.  Vectors keep the indices of the code     *)
(* (from 0); doubles are exact fractions.  groups_ holds the group ids     *)
(* 0 .. num_groups - 1, the groupset the ids gs_i .. gs_f among them.      *)
(***************************************************************************)
MaxTsGroups == 3
MaxMoments == 2
MaxTsCalls == 1

Num(n) == Fraction(n, 1)

\* The five flags of SourceFlags; source_flags is the set of the flags
\* whose bit is set, so that source_flags = 0 is the empty set.
SourceFlagNames ==
  {"APPLY_FIXED_SOURCES", "APPLY_WGS_SCATTER_SOURCES", "APPLY_AGS_SCATTER_SOURCES",
   "APPLY_WGS_FISSION_SOURCES", "APPLY_AGS_FISSION_SOURCES"}

\* (source_flags & FLAG)
HasFlag(source_flags, flag) == flag \in source_flags

\* theta of the stepping method.
Theta(method) ==
  CASE method = "BACKWARD_EULER"  -> Num(1)
    [] method = "CRANK_NICHOLSON" -> Fraction(1, 2)
    [] OTHER                      -> Fraction(7, 10)

\* eff_dt = theta * dt
EffDt(t) == Times(Theta(t.method), t.dt)

\* transport_view.MapDOF(i, m, 0) of the one node: the moments one after
\* the other, num_groups unknowns each.
MapDOF(t, i, m) == (i * t.num_moments + m) * t.num_groups

\* m_to_ell_em_map[m].ell
EllOf(m) == m

\* The sum of the values of a list of contributions.
RECURSIVE SumOf(_)
SumOf(terms) ==
  IF terms = <<>> THEN Zero ELSE Plus(Head(terms).value, SumOf(Tail(terms)))

\* One addition to rhs: where it comes from and what it adds.
Term(kind, part, gp, value) == [kind |-> kind, part |-> part, gp |-> gp, value |-> value]

\* The fixed source of group g: the material source or the source moments.
FixedSource(t, source_flags, m, g) ==
  LET apply_fixed_src == HasFlag(source_flags, "APPLY_FIXED_SOURCES")
      src == IF t.P0_src # <<>> /\ apply_fixed_src THEN t.P0_src[1]
             ELSE [k \in 0 .. t.num_groups - 1 |-> Zero]
  IN IF ~t.use_src_moments
     THEN <<Term("fixed", "material", g,
                 IF apply_fixed_src /\ EllOf(m) = 0 THEN src[g] ELSE Zero)>>
     ELSE IF apply_fixed_src
     THEN <<Term("fixed", "moments", g, t.ext_src_moments_local_[MapDOF(t, 0, m) + g])>>
     ELSE <<>>

\* if (gp < gs_i or gp > gs_f)
AcrossGroupset(t, gp) == gp < t.gs_i \/ gp > t.gs_f

\* Mutant: the first group of the groupset counts as outside it.
WithinGroupsetOpenBelow(t, gp) == gp > t.gs_i /\ gp <= t.gs_f

\* if (gp >= gs_i and gp <= gs_f)
WithinGroupset(t, gp) == gp >= t.gs_i /\ gp <= t.gs_f

\* The entries of S[ell].Row(g) that pass the test, each times phi.
RECURSIVE ScatterRow(_, _, _, _, _)
ScatterRow(t, row, uk_map, part, k) ==
  IF k > Len(row) THEN <<>>
  ELSE LET gp == row[k].gp
           counted == IF part = "ags" THEN AcrossGroupset(t, gp) ELSE WithinGroupset(t, gp)
       IN (IF counted
           THEN <<Term("scatter", part, gp, Times(row[k].sigma_sm, t.phi[uk_map + gp]))>>
           ELSE <<>>) \o ScatterRow(t, row, uk_map, part, k + 1)

\* Apply scattering sources: across the groupset, then within it.
ScatterSource(t, source_flags, m, g) ==
  LET S == t.xs.transfer_matrices
      moment_avail == EllOf(m) < Len(S)
      uk_map == MapDOF(t, 0, m)
  IN (IF moment_avail /\ HasFlag(source_flags, "APPLY_AGS_SCATTER_SOURCES")
      THEN ScatterRow(t, S[EllOf(m) + 1][g], uk_map, "ags", 1) ELSE <<>>)
     \o
     (IF moment_avail /\ HasFlag(source_flags, "APPLY_WGS_SCATTER_SOURCES")
      THEN ScatterRow(t, S[EllOf(m) + 1][g], uk_map, "wgs", 1) ELSE <<>>)

\* coeff = emission_spectrum[g] * decay_constant / (1 + eff_dt * decay_constant)
PrecursorCoeff(t, precursor, g) ==
  Over(Times(precursor.emission_spectrum[g], precursor.decay_constant),
       Plus(Num(1), Times(EffDt(t), precursor.decay_constant)))

\* The delayed part of the fission source of group gp, over the precursors.
RECURSIVE DelayedFission(_, _, _, _, _)
DelayedFission(t, g, gp, uk_map, j) ==
  IF j > Len(t.xs.precursors) THEN Zero
  ELSE Plus(Over(Times(Times(Times(Times(PrecursorCoeff(t, t.xs.precursors[j], g), EffDt(t)),
                                   t.xs.precursors[j].fractional_yield),
                             t.xs.nu_delayed_sigma_f[gp]),
                       t.phi[uk_map + gp]),
                 t.cell_volume),
            DelayedFission(t, g, gp, uk_map, j + 1))

\* What one source group gp adds to the fission source of group g.
FissionOf(t, g, gp, uk_map) ==
  Plus(Times(t.xs.production_matrix[g][gp], t.phi[uk_map + gp]),
       IF t.use_precursors THEN DelayedFission(t, g, gp, uk_map, 1) ELSE Zero)

\* for (gp = from; gp <= to; ++gp), with the test of the across loop.
RECURSIVE FissionLoop(_, _, _, _, _, _)
FissionLoop(t, g, uk_map, part, gp, to) ==
  IF gp > to THEN <<>>
  ELSE (IF part = "wgs" \/ AcrossGroupset(t, gp)
        THEN <<Term("fission", part, gp, FissionOf(t, g, gp, uk_map))>>
        ELSE <<>>) \o FissionLoop(t, g, uk_map, part, gp + 1, to)

\* Apply fission sources: across the groupset over first_grp .. last_grp,
\* then within it over gs_i .. gs_f.
FissionSource(t, source_flags, m, g) ==
  LET fission_avail == t.xs.is_fissionable /\ EllOf(m) = 0
      uk_map == MapDOF(t, 0, m)
  IN (IF fission_avail /\ HasFlag(source_flags, "APPLY_AGS_FISSION_SOURCES")
      THEN FissionLoop(t, g, uk_map, "ags", t.first_grp, t.last_grp) ELSE <<>>)
     \o
     (IF fission_avail /\ HasFlag(source_flags, "APPLY_WGS_FISSION_SOURCES")
      THEN FissionLoop(t, g, uk_map, "wgs", t.gs_i, t.gs_f) ELSE <<>>)

\* Apply previous precursors.
PreviousPrecursors(t, source_flags, m, g) ==
  IF t.xs.is_fissionable /\ EllOf(m) = 0
       /\ HasFlag(source_flags, "APPLY_FIXED_SOURCES") /\ t.use_precursors
  THEN [j \in 1 .. t.xs.num_precursors |->
          Term("precursor", "previous", g,
               Times(PrecursorCoeff(t, t.xs.precursors[j], g), t.precursor_prev_local[j - 1]))]
  ELSE <<>>

\* Everything added to rhs for moment m and group g, in the order of the code.
RhsTerms(t, source_flags, m, g) ==
  FixedSource(t, source_flags, m, g) \o ScatterSource(t, source_flags, m, g)
    \o FissionSource(t, source_flags, m, g) \o PreviousPrecursors(t, source_flags, m, g)

\* The unknown of destination_q that moment m and group g address, if any.
GroupsetUnknown(t, k) ==
  {<<m, g>> \in (0 .. t.num_moments - 1) \X (t.gs_i .. t.gs_f) : MapDOF(t, 0, m) + g = k}

\* The nodal loop: destination_q[uk_map + g] += rhs for the groups of
\* the groupset.
NodalSources(t, q, source_flags) ==
  [k \in DOMAIN q |->
     IF GroupsetUnknown(t, k) = {} THEN q[k]
     ELSE LET mg == CHOOSE mg \in GroupsetUnknown(t, k) : TRUE
          IN Plus(q[k], SumOf(RhsTerms(t, source_flags, mg[1], mg[2])))]

\* Apply point sources: strength[g] * node_weights[i] * vol_w on moment 0.
RECURSIVE PointSources(_, _, _, _)
PointSources(t, q, source_flags, p) ==
  IF t.use_src_moments \/ ~HasFlag(source_flags, "APPLY_FIXED_SOURCES")
       \/ p > Len(t.point_sources_)
  THEN q
  ELSE LET ps == t.point_sources_[p]
           uk_map == MapDOF(t, 0, 0)
       IN PointSources(t,
            [k \in DOMAIN q |->
               IF k - uk_map >= t.gs_i /\ k - uk_map <= t.gs_f
               THEN Plus(q[k], Times(Times(ps.strength[k - uk_map], ps.node_weights[0]),
                                     ps.vol_w))
               ELSE q[k]],
            source_flags, p + 1)

\* The sparse rows of a transfer matrix: per destination group the
\* entries (gp, sigma_sm) that are stored.
FullRows(G) == [g \in 0 .. G - 1 |-> [k \in 1 .. G |-> [gp |-> k - 1, sigma_sm |-> Num(g + 2)]]]
DownscatterRows(G) ==
  [g \in 0 .. G - 1 |-> [k \in 1 .. g |-> [gp |-> k - 1, sigma_sm |-> Num(g + 2)]]]

\* One precursor.
OnePrecursor(G) ==
  [decay_constant |-> Num(2), fractional_yield |-> Num(1),
   emission_spectrum |-> [g \in 0 .. G - 1 |-> Fraction(1, 2)]]

NoTsCall == [calls |-> 0, source_flags |-> {}, before |-> <<>>, terms |-> <<>>]

\* The solver before the call.  phi holds a different power of two in
\* every unknown, so that a sum tells which unknowns went into it.
TsInit ==
  /\ SerUnused
  /\ ProtoUnused
  /\ SbUnused
  /\ XsUnused
  /\ ObjUnused
  /\ \E G \in 1 .. MaxTsGroups : \E gs_i \in 0 .. G - 1 : \E gs_f \in gs_i .. G - 1 :
     \E M \in 1 .. MaxMoments : \E method \in {"BACKWARD_EULER", "CRANK_NICHOLSON", "OTHER"} :
     \E use_src_moments \in BOOLEAN : \E use_precursors \in BOOLEAN :
     \E is_fissionable \in BOOLEAN :
     \E S \in {<<FullRows(G)>>, <<DownscatterRows(G), FullRows(G)>>} :
     \E P0_src \in {<<>>, <<[g \in 0 .. G - 1 |-> Num(3)]>>} :
     \E point_sources \in {<<>>, <<[strength |-> [g \in 0 .. G - 1 |-> Num(5)],
                                   node_weights |-> [i \in {0} |-> Num(1)],
                                   vol_w |-> Fraction(1, 2)]>>} :
       ts = [num_groups |-> G, first_grp |-> 0, last_grp |-> G - 1,
             gs_i |-> gs_i, gs_f |-> gs_f, num_moments |-> M,
             method |-> method, dt |-> Num(1),
             use_src_moments |-> use_src_moments, use_precursors |-> use_precursors,
             xs |-> [is_fissionable |-> is_fissionable,
                     transfer_matrices |-> S,
                     production_matrix |-> [g \in 0 .. G - 1 |-> [gp \in 0 .. G - 1 |-> Num(1)]],
                     nu_delayed_sigma_f |-> [gp \in 0 .. G - 1 |-> Num(1)],
                     num_precursors |-> IF is_fissionable THEN 1 ELSE 0,
                     precursors |-> IF is_fissionable THEN <<OnePrecursor(G)>> ELSE <<>>],
             cell_volume |-> Num(2),
             P0_src |-> P0_src,
             ext_src_moments_local_ |-> [k \in 0 .. M * G - 1 |-> Num(7)],
             precursor_prev_local |-> [j \in {0} |-> Num(1)],
             point_sources_ |-> point_sources,
             phi |-> [k \in 0 .. M * G - 1 |-> Num(2 ^ k)]]
  /\ destination_q = [k \in 0 .. ts.num_moments * ts.num_groups - 1 |-> Num(1)]
  /\ ts_log = NoTsCall

\* void SetTransientSource(groupset, destination_q, phi, source_flags)
SetTransientSource(source_flags) ==
  /\ ts_log.calls < MaxTsCalls
  /\ destination_q' = PointSources(ts, NodalSources(ts, destination_q, source_flags),
                                   source_flags, 1)
  /\ ts_log' = [calls |-> ts_log.calls + 1, source_flags |-> source_flags,
                before |-> destination_q,
                terms |-> [m \in 0 .. ts.num_moments - 1 |->
                             [g \in ts.gs_i .. ts.gs_f |-> RhsTerms(ts, source_flags, m, g)]]]
  /\ UNCHANGED ts
  /\ UNCHANGED <<serVars, protoVars, sbVars, xsVars, objVars>>

TsNext == \E source_flags \in SUBSET SourceFlagNames : SetTransientSource(source_flags)

TsSpec == TsInit /\ [][TsNext]_vars

(***************************************************************************)
(* Properties of Part V.                                                   *)
(***************************************************************************)
\* C30: a call for a type that is not registered, or whose entry has no
\* constructor, ends in an error with no object constructed and the object
\* stack as it was; a call that succeeds has constructed one object, the
\* stack is the stack before the call with that object added, and the
\* handle returned is the stack id of that object.
C30_MakeOrFailCleanly ==
  make_log.call = "MakeRegisteredObjectOfType" =>
    LET type  == make_log.type
        n     == Len(make_log.before)
        unfit == \/ type \notin DOMAIN object_registry_
                 \/ ~object_registry_[type].constructor_func
    IN /\ unfit => /\ make_log.thrown # "none"
                   /\ make_log.constructed = 0
                   /\ object_stack = make_log.before
       /\ make_log.thrown = "none" =>
            /\ ~unfit
            /\ make_log.constructed = 1
            /\ Len(object_stack) = n + 1
            /\ SubSeq(object_stack, 1, n) = make_log.before
            /\ object_stack[n + 1].type = type
            /\ object_stack[n + 1].stack_id = make_log.handle
            /\ make_log.handle = n

\* A call has failed, for a type that is not registered or without a
\* constructor, on a stack that holds an object made by an earlier call.
C30_Witness ==
  /\ make_log.call = "MakeRegisteredObjectOfType"
  /\ make_log.thrown \notin {"", "none"}
  /\ Len(object_stack) >= 1
  /\ object_stack[1].stack_id = 0

\* C31: MakeRegisteredObject on a parameter block without the field
\* chi_obj_type throws std::invalid_argument, makes no object and leaves
\* the object stack as it was; on a block with the field it ends as
\* MakeRegisteredObjectOfType does for the type named there -- the error for
\* a type not registered, the error for an entry without constructor, or
\* one object of that type added and its place returned.
C31_TypeFromParameters ==
  make_log.call = "MakeRegisteredObject" =>
    LET params == make_log.params
        n      == Len(make_log.before)
    IN IF "chi_obj_type" \notin DOMAIN params
       THEN /\ make_log.thrown = "std::invalid_argument"
            /\ make_log.constructed = 0
            /\ object_stack = make_log.before
       ELSE LET type == params.chi_obj_type IN
            /\ make_log.type = type
            /\ make_log.thrown # "std::invalid_argument"
            /\ make_log.thrown = "No registered type found."
                 <=> type \notin DOMAIN object_registry_
            /\ make_log.thrown = "Object is not constructable since it has no registered constructor"
                 <=> (type \in DOMAIN object_registry_
                        /\ ~object_registry_[type].constructor_func)
            /\ make_log.thrown # "none" =>
                 (make_log.constructed = 0 /\ object_stack = make_log.before)
            /\ make_log.thrown = "none" =>
                 /\ make_log.constructed = 1
                 /\ object_stack = Append(make_log.before, [type |-> type, stack_id |-> n])
                 /\ make_log.handle = n

\* MakeRegisteredObject has thrown for want of the field on a stack that
\* holds an object it made from a block with the field.
C31_Witness ==
  /\ make_log.call = "MakeRegisteredObject"
  /\ make_log.thrown = "std::invalid_argument"
  /\ Len(object_stack) >= 2
  /\ object_stack[2].type = "type_b"

\* What the sign rule makes of each body entry, read left to right from
\* position k: "indicator" for a negative entry that does not follow an
\* indicator, "face" for the entry that follows an indicator, "vertex"
\* for every other entry.
RECURSIVE EntryKinds(_, _, _)
EntryKinds(buf, k, after_indicator) ==
  IF k > Len(buf) THEN <<>>
  ELSE IF after_indicator THEN <<"face">> \o EntryKinds(buf, k + 1, FALSE)
  ELSE IF buf[k] < 0 THEN <<"indicator">> \o EntryKinds(buf, k + 1, TRUE)
  ELSE <<"vertex">> \o EntryKinds(buf, k + 1, FALSE)

\* The body entries of one kind, in buffer order.
RECURSIVE EntriesOfKind(_, _, _, _)
EntriesOfKind(buf, kinds, i, kind) ==
  IF i > Len(kinds) THEN <<>>
  ELSE (IF kinds[i] = kind THEN <<buf[i + 2]>> ELSE <<>>)
         \o EntriesOfKind(buf, kinds, i + 1, kind)

\* All decoded faces in list order.
RECURSIVE DecodedFaces(_)
DecodedFaces(cell_views) ==
  IF cell_views = <<>> THEN <<>>
  ELSE Head(cell_views).second \o DecodedFaces(Tail(cell_views))

RECURSIVE DecodedVertices(_)
DecodedVertices(faces) ==
  IF faces = <<>> THEN <<>>
  ELSE Head(faces).second \o DecodedVertices(Tail(faces))

\* C32: DeSerializeCellInfo decides by sign alone.  After the two header
\* entries a negative entry that does not follow an indicator opens one
\* face, the entry after an indicator becomes that face's id whatever its
\* sign, and every other entry is appended as a vertex; so no decoded
\* vertex is negative, a negative vertex id being read as an indicator.
C32_DecidesBySignAlone ==
  (ser_stage = "deserialized" /\ ~out_fault) =>
    LET kinds == EntryKinds(face_indices, 3, FALSE)
        faces == DecodedFaces(out_cell_views)
    IN /\ Len(faces) = Len(EntriesOfKind(face_indices, kinds, 1, "indicator"))
       /\ [i \in 1..Len(faces) |-> faces[i].first]
            = EntriesOfKind(face_indices, kinds, 1, "face")
       /\ DecodedVertices(faces) = EntriesOfKind(face_indices, kinds, 1, "vertex")
       /\ \A i \in 1..Len(DecodedVertices(faces)) : DecodedVertices(faces)[i] >= 0

\* A buffer with a negative face id, and with a negative entry after a
\* vertex that opened a second face, has been decoded.
C32_Witness ==
  /\ ser_stage = "deserialized"
  /\ ~out_fault
  /\ LET faces == DecodedFaces(out_cell_views) IN
       /\ Len(faces) = 2
       /\ faces[1].first < 0
       /\ Len(faces[1].second) = 1
       /\ face_indices[6] < 0

\* C33: a sweep buffer without any send request (no successor) is done
\* sending after the first ClearDownstreamBuffers call of a sweep, which
\* tests nothing and calls ClearSendPsi, once in the sweep.
C33_NothingToSendIsDoneAtOnce ==
  /\ [](RequestSlots(sweep_buffer.deplocI_message_request) = <<>> =>
          /\ sweep_log.clear_send_psi <= 1
          /\ (sweep_log.call = "ClearDownstreamBuffers" /\ ~sweep_log.was_done) =>
               /\ DoneSending
               /\ sweep_log.released
               /\ sweep_log.tests = 0
               /\ sweep_log.clear_send_psi = 1)
  /\ [][(/\ RequestSlots(sweep_buffer.deplocI_message_request) = <<>>
          /\ sweep_log'.call = "ClearDownstreamBuffers"
          /\ sweep_log.clear_send_psi = 0)
          => (DoneSending' /\ sweep_log'.released /\ sweep_log'.clear_send_psi = 1)]_vars

C33_Witness ==
  /\ RequestSlots(sweep_buffer.deplocI_message_request) = <<>>
  /\ sweep_log.call = "ClearDownstreamBuffers"
  /\ ~sweep_log.was_done
  /\ sweep_log.released
  /\ sweep_log.sweep = 2
  /\ sweep_buffer.prelocI_message_received # <<>>

\* The cell views that have a face, in list order.
WithFaces(cell_views) == SelectSeq(cell_views, LAMBDA cv : cv.second # <<>>)

\* How many of the cells ahead of cell c have no face.
FacelessBefore(cell_views, c) ==
  Cardinality({j \in 1 .. (c - 1) : cell_views[j].second = <<>>})

\* C34: a cell view without faces is counted in the header's num_cells and
\* writes nothing to the body, the body being that of the list without it;
\* the decoder then fills fewer than num_cells entries, and (global ids in
\* range and different from one cell with faces to the next) a cell with
\* faces is stored as many positions ahead of its input position as there
\* are cells without faces before it.
C34_FacelessCellShiftsTheRest ==
  (ser_stage = "deserialized" /\ ~EveryCellHasAFace(in_cell_views)) =>
    /\ face_indices[2] = Len(in_cell_views)
    /\ \E ub \in UBOutcomes :
         BodyOf(face_indices)
           = BodyOf(SerializeCellInfo(WithFaces(in_cell_views), <<>>, in_num_face_dofs, ub))
    /\ ~out_fault
    /\ Len(WithFaces(out_cell_views)) < face_indices[2]
    /\ (/\ AdjacentIdsDiffer(WithFaces(in_cell_views))
        /\ \A c \in 1 .. Len(in_cell_views) : in_cell_views[c].first < IntMax)
       => \A c \in 1 .. Len(in_cell_views) :
            in_cell_views[c].second # <<>> =>
              out_cell_views[c - FacelessBefore(in_cell_views, c)] = in_cell_views[c]

\* A cell with faces that follows a cell without faces has been decoded.
C34_Witness ==
  /\ ser_stage = "deserialized"
  /\ Len(in_cell_views) = 2
  /\ in_cell_views[1].second = <<>>
  /\ Len(in_cell_views[2].second) = 2
  /\ in_cell_views[2].first = 1
  /\ out_cell_views[1] = in_cell_views[2]

\* The vector is empty or has an entry below zero.
EmptyOrNegative(vec) == vec = <<>> \/ \E g \in 1 .. Len(vec) : ~GeZero(vec[g])

\* C35: when sigma_f and nu_sigma_f are each empty or hold a negative
\* entry, Finalize throws nothing, leaves is_fissionable false,
\* num_precursors zero and every fission-related property empty.
C35_NotFissionableIsCleared ==
  (xs_thrown # "" /\ EmptyOrNegative(xs_given.sigma_f)
     /\ EmptyOrNegative(xs_given.nu_sigma_f))
    => /\ xs_thrown = "none"
       /\ ~xs.is_fissionable
       /\ xs.num_precursors = 0
       /\ \A field \in {"sigma_f", "nu_sigma_f", "nu_prompt_sigma_f", "nu_delayed_sigma_f",
                         "nu", "nu_prompt", "nu_delayed", "beta", "chi", "chi_prompt",
                         "precursors"} : xs[field] = <<>>
       /\ xs.num_groups = xs_given.num_groups

\* Finalize has cleared a prompt/delayed specification whose sigma_f holds
\* a negative entry next to a positive one.
C35_Witness ==
  /\ xs_thrown = "none"
  /\ xs_given.num_groups = 2
  /\ xs_given.sigma_f = FirstNegative(2)
  /\ xs_given.nu_sigma_f = <<>>
  /\ xs_given.num_precursors = 1
  /\ xs_given.nu_prompt # <<>>
  /\ xs_given.precursors # <<>>
  /\ xs.sigma_f = <<>>
  /\ xs.precursors = <<>>

\* How often source group gp was added to rhs as a term of this kind and part.
TimesCounted(terms, kind, part, gp) ==
  Len(SelectSeq(terms, LAMBDA x : x.kind = kind /\ x.part = part /\ x.gp = gp))

\* The source groups the transfer matrix of moment m stores for group g.
RowGroups(m, g) ==
  IF m >= Len(ts.xs.transfer_matrices) THEN {}
  ELSE {ts.xs.transfer_matrices[m + 1][g][k].gp :
          k \in 1 .. Len(ts.xs.transfer_matrices[m + 1][g])}

\* The source groups that can feed the fission source of moment m.
FissionGroups(m) ==
  IF ts.xs.is_fissionable /\ m = 0 THEN ts.first_grp .. ts.last_grp ELSE {}

\* The sum of sigma_sm * phi over the stored entries of a row.
RECURSIVE RowSum(_, _, _)
RowSum(row, uk_map, k) ==
  IF k > Len(row) THEN Zero
  ELSE Plus(Times(row[k].sigma_sm, ts.phi[uk_map + row[k].gp]), RowSum(row, uk_map, k + 1))

\* C36: for every moment and every destination group g of the groupset,
\* a source group gp is added by the within-groupset term exactly when its
\* flag is set and gs_i <= gp <= gs_f, and by the across-groupset term
\* exactly when its flag is set and gp lies outside, once each, for
\* scattering (gp stored in the row of g) and for fission (gp a group of
\* the solver) alike; no other group is added; with both flags set every
\* gp is added once, and the scattering flags alone add the whole row to
\* destination_q; with no flag set destination_q is left as it was.
C36_EachSourceGroupOnce ==
  ts_log.calls > 0 =>
    LET flags == ts_log.source_flags IN
    /\ \A m \in 0 .. ts.num_moments - 1 : \A g \in ts.gs_i .. ts.gs_f :
       \A gp \in 0 .. ts.num_groups - 1 :
         LET terms  == ts_log.terms[m][g]
             inside == ts.gs_i <= gp /\ gp <= ts.gs_f
             One(b) == IF b THEN 1 ELSE 0
         IN /\ TimesCounted(terms, "scatter", "wgs", gp)
                 = One("APPLY_WGS_SCATTER_SOURCES" \in flags /\ gp \in RowGroups(m, g) /\ inside)
            /\ TimesCounted(terms, "scatter", "ags", gp)
                 = One("APPLY_AGS_SCATTER_SOURCES" \in flags /\ gp \in RowGroups(m, g) /\ ~inside)
            /\ TimesCounted(terms, "fission", "wgs", gp)
                 = One("APPLY_WGS_FISSION_SOURCES" \in flags /\ gp \in FissionGroups(m) /\ inside)
            /\ TimesCounted(terms, "fission", "ags", gp)
                 = One("APPLY_AGS_FISSION_SOURCES" \in flags /\ gp \in FissionGroups(m) /\ ~inside)
            /\ {"APPLY_WGS_SCATTER_SOURCES", "APPLY_AGS_SCATTER_SOURCES"} \subseteq flags =>
                 TimesCounted(terms, "scatter", "wgs", gp)
                   + TimesCounted(terms, "scatter", "ags", gp) = One(gp \in RowGroups(m, g))
            /\ {"APPLY_WGS_FISSION_SOURCES", "APPLY_AGS_FISSION_SOURCES"} \subseteq flags =>
                 TimesCounted(terms, "fission", "wgs", gp)
                   + TimesCounted(terms, "fission", "ags", gp) = One(gp \in FissionGroups(m))
    /\ flags = {"APPLY_WGS_SCATTER_SOURCES", "APPLY_AGS_SCATTER_SOURCES"} =>
         \A m \in 0 .. ts.num_moments - 1 : \A g \in ts.gs_i .. ts.gs_f :
           LET uk_map == m * ts.num_groups IN
             destination_q[uk_map + g]
               = Plus(ts_log.before[uk_map + g],
                      IF m >= Len(ts.xs.transfer_matrices) THEN Zero
                      ELSE RowSum(ts.xs.transfer_matrices[m + 1][g], uk_map, 1))
    /\ flags = {} => destination_q = ts_log.before

\* A call with all four scattering and fission flags on a groupset that
\* has groups of the solver below and above it.
C36_Witness ==
  /\ ts_log.calls = 1
  /\ {"APPLY_WGS_SCATTER_SOURCES", "APPLY_AGS_SCATTER_SOURCES",
      "APPLY_WGS_FISSION_SOURCES", "APPLY_AGS_FISSION_SOURCES"} \subseteq ts_log.source_flags
  /\ ts.num_groups = 3
  /\ ts.gs_i = 1
  /\ ts.gs_f = 1
  /\ ts.xs.is_fissionable
  /\ ts.use_precursors
  /\ Len(ts_log.terms[0][1]) >= 6
  /\ destination_q # ts_log.before

====
